---------------------------- MODULE Spec2Model ----------------------------
(***************************************************************************)
(* Temporal scheduling engine of the subscriber application:               *)
(*   - docreq_appointment_bl   (7-day doctor availability projection)      *)
(*   - create_appointment_bl   (doctor appointment booking)                *)
(*   - update_appointment_bl, cancel_appointment_bl (rescheduling, cancel) *)
(*   - frequency_time_helper / create_nursing_vitals_bl (vitals recurrence)*)
(*   - get_medication_schedule (dose timing)                               *)
(*                                                                         *)
(* Units.  A datetime produced by strptime("%I:%M %p") or                  *)
(* strptime("%H:%M:%S") lies on 1900-01-01; it is modelled as the number   *)
(* of seconds since 1900-01-01 00:00, so that timedelta arithmetic can     *)
(* leave the first day and strftime takes the value modulo one day.  A     *)
(* time of day is a number of seconds since midnight.  A calendar date is  *)
(* the number of days since 2026-01-01.                                    *)
(*                                                                         *)
(* Strings.  A time-range column value is the sequence of the parts that   *)
(* split(" - ") gives; NULL and "" are the empty sequence.  A part is a    *)
(* triple <<h, m, p>> standing for the text "h:m p"; strptime accepts it   *)
(* when it is a 12-hour clock value and raises ValueError otherwise.       *)
(***************************************************************************)
EXTENDS Integers, Sequences, FiniteSets, TLC

VARIABLES
    today,                   \* datetime.today() of the running call (a date)
    tbl_doctor,              \* doctor_id -> [avblty]
    tbl_doctoravblty,        \* sequence of DoctorsAvailability rows, by availability_id
    tbl_doctorappointments,  \* set of DoctorAppointment rows
    req,                     \* doctor_id of the last docreq_appointment_bl call
    resp,                    \* what that call returned or raised
    tbl_idgenerator,         \* entity_name -> last_code of the active IdGenerator row
    pc,                      \* per client: where its booking stands
    seen,                    \* per client: the slot its last availability call offered
    txn,                     \* per client: what its open transaction has read
    result,                  \* per client: status of its last create_appointment_bl call
    op,                      \* the last update_appointment_bl or cancel_appointment_bl call
    tbl_sp_appointments,     \* sp_appointment_id -> [start_time, end_time] texts
    tbl_vitals_request,      \* sequence of VitalsRequest rows
    tbl_vitals_time,         \* sequence of VitalsTime rows
    vitals_req,              \* the last CreateNursingParameter body
    vitals_out,              \* what create_nursing_vitals_bl did with it
    med_in,                  \* the last arguments of get_medication_schedule
    med_out,                 \* what it returned or raised
    call                     \* the frame of a docreq_appointment_bl call run step by step

slotVars == <<today, tbl_doctor, tbl_doctoravblty, tbl_doctorappointments, req, resp>>

bookingVars == <<tbl_idgenerator, pc, seen, txn, result, op>>

vitalsVars == <<tbl_sp_appointments, tbl_vitals_request, tbl_vitals_time,
                vitals_req, vitals_out>>

medVars == <<med_in, med_out>>

loopVars == <<call>>

vars == <<today, tbl_doctor, tbl_doctoravblty, tbl_doctorappointments, req, resp,
          tbl_idgenerator, pc, seen, txn, result, op,
          tbl_sp_appointments, tbl_vitals_request, tbl_vitals_time,
          vitals_req, vitals_out, med_in, med_out, call>>

-----------------------------------------------------------------------------
(* Calendar: date.strftime("%d-%m-%Y"), datetime.strptime(.., "%d-%m-%Y"),  *)
(* strftime("%a").                                                          *)

\* dates count days from 1 January of the epoch year
EpochYear == 2025 + 1

IsLeap(y) == (y % 4 = 0 /\ y % 100 # 0) \/ y % 400 = 0

DaysInMonth(y, m) ==
    IF m = 2 THEN (IF IsLeap(y) THEN 29 ELSE 28)
    ELSE IF m \in {4, 6, 9, 11} THEN 30 ELSE 31

RECURSIVE OrdToDMY(_, _, _)
OrdToDMY(n, y, m) ==
    IF n >= DaysInMonth(y, m)
    THEN IF m = 12 THEN OrdToDMY(n - DaysInMonth(y, m), y + 1, 1)
                   ELSE OrdToDMY(n - DaysInMonth(y, m), y, m + 1)
    ELSE <<n + 1, m, y>>

\* date -> "dd-mm-yyyy", held as <<dd, mm, yyyy>>
strftime_d_m_Y(date) == OrdToDMY(date, EpochYear, 1)

RECURSIVE DaysBefore(_, _)
DaysBefore(y, m) ==
    IF y = EpochYear /\ m = 1 THEN 0
    ELSE IF m = 1 THEN DaysBefore(y - 1, 12) + DaysInMonth(y - 1, 12)
    ELSE DaysBefore(y, m - 1) + DaysInMonth(y, m - 1)

\* "dd-mm-yyyy" -> date
strptime_d_m_Y(s) == DaysBefore(s[3], s[2]) + (s[1] - 1)

WeekdayNames == <<"Mon", "Tue", "Wed", "Thu", "Fri", "Sat", "Sun">>

\* 2026-01-01 is a Thursday
strftime_a(date) == WeekdayNames[((date + 3) % 7) + 1]

-----------------------------------------------------------------------------
(* Clock texts: strptime(.., "%I:%M %p") and strftime("%I:%M %p").          *)

SecondsPerDay == 24 * 60 * 60

\* timedelta(minutes=n), timedelta(hours=n)
timedelta_minutes(n) == n * 60

timedelta_hours(n) == n * 3600

IsClock12(part) ==
    /\ part[1] \in 1..12
    /\ part[2] \in 0..59
    /\ part[3] \in {"AM", "PM", "am", "pm"}

\* the datetime of a part strptime accepts (12 AM is hour 0, 12 PM is hour 12)
strptime_I_M_p(part) ==
    ((part[1] % 12) + (IF part[3] \in {"PM", "pm"} THEN 12 ELSE 0)) * 3600
    + part[2] * 60

\* the text "hh:mm AM|PM" of a datetime; seconds and the day are dropped
strftime_I_M_p(dt) ==
    LET tod == dt % SecondsPerDay
        h24 == tod \div 3600
    IN  << IF h24 % 12 = 0 THEN 12 ELSE h24 % 12,
           (tod % 3600) \div 60,
           IF h24 < 12 THEN "AM" ELSE "PM" >>

(* 24-hour texts "HH:MM:SS", held as <<HH, MM, SS>>.                        *)

IsClock24(text) ==
    /\ text[1] \in 0..23
    /\ text[2] \in 0..59
    /\ text[3] \in 0..59

strptime_H_M_S(text) == text[1] * 3600 + text[2] * 60 + text[3]

strftime_H_M_S(dt) ==
    LET tod == dt % SecondsPerDay
    IN  << tod \div 3600, (tod % 3600) \div 60, tod % 60 >>

-----------------------------------------------------------------------------
(* Table queries used by docreq_appointment_bl.                             *)

\* get_data_by_id_utils(table=Doctor, field="doctor_id", ...): the row or None
get_doctor_by_id(doctor_id) ==
    IF doctor_id \in DOMAIN tbl_doctor THEN <<tbl_doctor[doctor_id]>> ELSE <<>>

\* rows of the doctor with active_flag == 1, in table order
doctors_availability_active_helper(doctor_id) ==
    SelectSeq(tbl_doctoravblty,
              LAMBDA r : r.doctor_id = doctor_id /\ r.active_flag = 1)

\* mutant: the status filter forgets "Rescheduled"
clinic_data_active_helper_scheduled_only(doctor_id, now) ==
    { a \in tbl_doctorappointments :
        /\ a.doctor_id = doctor_id
        /\ a.status = "Scheduled"
        /\ a.appointment_date >= now }

\* mutant: the status filter is dropped
clinic_data_active_helper_any_status(doctor_id, now) ==
    { a \in tbl_doctorappointments :
        /\ a.doctor_id = doctor_id
        /\ a.appointment_date >= now }

\* appointments of the doctor that are Scheduled or Rescheduled, today or later
clinic_data_active_helper(doctor_id, now) ==
    { a \in tbl_doctorappointments :
        /\ a.doctor_id = doctor_id
        /\ a.status \in {"Scheduled", "Rescheduled"}
        /\ a.appointment_date >= now }

-----------------------------------------------------------------------------
(* Slot generation, lines 744-767 of docreq_appointment_bl.                 *)

\* while start_time < end_time: append strftime(start_time); start_time += step
RECURSIVE slot_loop(_, _, _)
slot_loop(start_time, end_time, time_per_appointment) ==
    IF start_time < end_time
    THEN <<strftime_I_M_p(start_time)>>
         \o slot_loop(start_time + timedelta_minutes(time_per_appointment), end_time,
                      time_per_appointment)
    ELSE <<>>

\* the try block succeeds: exactly two parts, both accepted by strptime
slot_parses(slot) ==
    /\ Len(slot) = 2
    /\ IsClock12(slot[1])
    /\ IsClock12(slot[2])

\* mutant: timing.append(slot) placed before the two strptime calls
slot_outcome_timing_first(slot, time_per_appointment) ==
    IF Len(slot) >= 2
    THEN [timing |-> <<slot>>,
          slots  |-> IF slot_parses(slot)
                     THEN slot_loop(strptime_I_M_p(slot[1]), strptime_I_M_p(slot[2]),
                                    time_per_appointment)
                     ELSE <<>>]
    ELSE [timing |-> <<>>, slots |-> <<>>]

\* one iteration of "for slot in all_slots": what it adds to timing and total_slots
slot_outcome(slot, time_per_appointment) ==
    IF Len(slot) >= 2                       \* slot and " - " in slot
    THEN IF slot_parses(slot)
         THEN [timing |-> <<slot>>,
               slots  |-> slot_loop(strptime_I_M_p(slot[1]), strptime_I_M_p(slot[2]),
                                    time_per_appointment)]
         ELSE [timing |-> <<>>, slots |-> <<>>]   \* ValueError: logged, continue
    ELSE [timing |-> <<>>, slots |-> <<>>]

\* mutant: the lists are merged evening first
all_slots_reversed(avbl) ==
    (IF Len(avbl.evening_slot) > 0 THEN <<avbl.evening_slot>> ELSE <<>>)
    \o (IF Len(avbl.afternoon_slot) > 0 THEN <<avbl.afternoon_slot>> ELSE <<>>)
    \o (IF Len(avbl.morning_slot) > 0 THEN <<avbl.morning_slot>> ELSE <<>>)

\* morning_slots + afternoon_slots + evening_slots, falsy columns dropped
all_slots(avbl) ==
    (IF Len(avbl.morning_slot) > 0 THEN <<avbl.morning_slot>> ELSE <<>>)
    \o (IF Len(avbl.afternoon_slot) > 0 THEN <<avbl.afternoon_slot>> ELSE <<>>)
    \o (IF Len(avbl.evening_slot) > 0 THEN <<avbl.evening_slot>> ELSE <<>>)

RECURSIVE generate(_, _)
generate(slots, time_per_appointment) ==
    IF slots = <<>> THEN [timing |-> <<>>, slots |-> <<>>]
    ELSE LET h == slot_outcome(Head(slots), time_per_appointment)
             t == generate(Tail(slots), time_per_appointment)
         IN  [timing |-> h.timing \o t.timing, slots |-> h.slots \o t.slots]

-----------------------------------------------------------------------------
(* docreq_appointment_bl, lines 707-798.                                    *)

HorizonDays == 7

\* mutant: the horizon starts tomorrow (range(1, 8))
next_7_days_from_tomorrow(now) ==
    [i \in 1..HorizonDays |-> strftime_d_m_Y(now + i)]

\* [(today + timedelta(days=i)).strftime("%d-%m-%Y") for i in range(7)]
next_7_days(now) ==
    [i \in 1..HorizonDays |-> strftime_d_m_Y(now + (i - 1))]

SeqRange(s) == { s[i] : i \in 1..Len(s) }

\* mutant: the clinic_name test is dropped from the booked_slots filter
booked_slots_any_clinic(clinic_data, avbl, day) ==
    { strftime_I_M_p(strptime_H_M_S(strftime_H_M_S(clinic.appointment_time))) :
        clinic \in { c \in clinic_data : strftime_d_m_Y(c.appointment_date) = day } }

\* mutant: the date test is dropped from the booked_slots filter
booked_slots_any_day(clinic_data, avbl, day) ==
    { strftime_I_M_p(strptime_H_M_S(strftime_H_M_S(clinic.appointment_time))) :
        clinic \in { c \in clinic_data : c.clinic_name = avbl.clinic_name } }

\* booked_slots of one availability row and one day, lines 770-774
booked_slots(clinic_data, avbl, day) ==
    { strftime_I_M_p(strptime_H_M_S(strftime_H_M_S(clinic.appointment_time))) :
        clinic \in { c \in clinic_data :
                        /\ c.clinic_name = avbl.clinic_name
                        /\ strftime_d_m_Y(c.appointment_date) = day } }

\* the dict appended for one availability row and one matching day, lines 744-787
clinic_entry(avbl, day, clinic_data, time_per_appointment) ==
    LET gen         == generate(all_slots(avbl), time_per_appointment)
        total_slots == gen.slots
        booked      == booked_slots(clinic_data, avbl, day)
        available   == SelectSeq(total_slots, LAMBDA slot : slot \notin booked)
    IN  [name      |-> avbl.clinic_name,
         address   |-> avbl.clinic_address,
         timing    |-> gen.timing,
         avblslots |-> IF booked = {} THEN total_slots ELSE available]

\* mutant: the weekday test is dropped, every row contributes to every day
RECURSIVE clinic_list_every_day(_, _, _, _)
clinic_list_every_day(rows, day, clinic_data, time_per_appointment) ==
    IF rows = <<>> THEN <<>>
    ELSE <<clinic_entry(Head(rows), day, clinic_data, time_per_appointment)>>
         \o clinic_list_every_day(Tail(rows), day, clinic_data, time_per_appointment)

\* mutant: the loop over the rows stops at the first row that matches the day
RECURSIVE clinic_list_first_match(_, _, _, _)
clinic_list_first_match(rows, day, clinic_data, time_per_appointment) ==
    IF rows = <<>> THEN <<>>
    ELSE IF strftime_a(strptime_d_m_Y(day)) \notin Head(rows).days
         THEN clinic_list_first_match(Tail(rows), day, clinic_data, time_per_appointment)
         ELSE <<clinic_entry(Head(rows), day, clinic_data, time_per_appointment)>>

\* the clinic list of one day: one entry per row whose days contain the weekday
RECURSIVE clinic_list(_, _, _, _)
clinic_list(rows, day, clinic_data, time_per_appointment) ==
    IF rows = <<>> THEN <<>>
    ELSE LET avbl            == Head(rows)
             appointment_day == strftime_a(strptime_d_m_Y(day))
             rest            == clinic_list(Tail(rows), day, clinic_data,
                                            time_per_appointment)
         IN  IF appointment_day \notin avbl.days
             THEN rest
             ELSE <<clinic_entry(avbl, day, clinic_data, time_per_appointment)>> \o rest

NoBody == [day \in {} |-> [clinic |-> <<>>]]

docreq_appointment_bl(doctor_id, now) ==
    LET doctor_data              == get_doctor_by_id(doctor_id)
        doctor_availability_data == doctors_availability_active_helper(doctor_id)
        clinic_data              == clinic_data_active_helper(doctor_id, now)
    IN  IF doctor_data = <<>>
        THEN [status |-> 404, detail |-> "No doctor found with this ID", body |-> NoBody]
        ELSE IF doctor_availability_data = <<>>
        THEN [status |-> 404, detail |-> "No availability found for this doctor",
              body |-> NoBody]
        ELSE [status |-> 200, detail |-> "",
              body |-> [day \in SeqRange(next_7_days(now)) |->
                          [clinic |-> clinic_list(doctor_availability_data, day,
                                                  clinic_data, doctor_data[1].avblty)]]]

-----------------------------------------------------------------------------
(* Catalogue and booking data the availability projection is checked on.    *)

MaxRows == 2
MaxBooked == 2

\* 2026-02-25 (a Wednesday, the horizon crosses the end of February) and
\* 2026-12-28 (a Monday, the horizon crosses the end of the year)
Todays == { strptime_d_m_Y(<<25, 2, 2026>>), strptime_d_m_Y(<<28, 12, 2026>>) }

Durations == {20, 30}

T(h, m, p) == <<h, m, p>>

Row(id, doc, clinic, addr, days, morning, afternoon, evening, flag) ==
    [availability_id |-> id, doctor_id |-> doc, clinic_name |-> clinic,
     clinic_address |-> addr, days |-> days, morning_slot |-> morning,
     afternoon_slot |-> afternoon, evening_slot |-> evening, active_flag |-> flag]

AllWeek == SeqRange(WeekdayNames)

RowChoices ==
    { Row(1, "D1", "C1", "A1", {"Mon", "Wed", "Fri"},
          <<T(9, 0, "AM"), T(10, 0, "AM")>>, <<>>, <<>>, 1),
      \* a window the duration does not divide, and an overlapping one
      Row(2, "D1", "C2", "A2", {"Wed", "Thu"},
          <<T(9, 0, "am"), T(9, 50, "AM")>>, <<T(9, 30, "AM"), T(10, 30, "AM")>>, <<>>, 1),
      \* "08:00 AM - 13:00 PM" is rejected by %I; the evening text has three parts
      Row(3, "D1", "C1", "A1", {"Mon", "Thu", "Sat"},
          <<T(8, 0, "AM"), T(13, 0, "PM")>>, <<T(11, 0, "PM"), T(11, 50, "PM")>>,
          <<T(6, 0, "PM"), T(7, 0, "PM"), T(8, 0, "PM")>>, 1),
      \* a text without " - ", and a window that ends before it starts
      Row(4, "D1", "C2", "A2", {"Sun"},
          <<T(9, 0, "AM")>>, <<T(11, 30, "PM"), T(12, 30, "AM")>>, <<>>, 1),
      Row(5, "D1", "C1", "A1", AllWeek,
          <<T(7, 0, "AM"), T(8, 0, "AM")>>, <<>>, <<>>, 0),
      Row(6, "D2", "C1", "A3", {"Wed"},
          <<T(9, 0, "AM"), T(10, 0, "AM")>>, <<>>, <<>>, 1) }

\* an entity code: the text prefix + str(number).zfill(width)
Code(prefix, width, number) == [prefix |-> prefix, width |-> width, number |-> number]

Appt(id, doc, sub, date, time, status, clinic, flag) ==
    [appointment_id |-> Code("ICDAP", 4, id), doctor_id |-> doc, subscriber_id |-> sub,
     appointment_date |-> date, appointment_time |-> time, status |-> status,
     clinic_name |-> clinic, active_flag |-> flag]

HMS(h, m, sec) == h * 3600 + m * 60 + sec

BookedChoices(now) ==
    { Appt(1, "D1", "S1", now,     HMS(9, 0, 0),   "Scheduled",   "C1", 1),
      Appt(2, "D1", "S2", now,     HMS(9, 20, 0),  "Rescheduled", "C1", 1),
      Appt(3, "D1", "S1", now,     HMS(9, 30, 0),  "Cancelled",   "C1", 0),
      Appt(4, "D1", "S2", now,     HMS(9, 40, 0),  "Scheduled",   "C2", 1),
      Appt(5, "D2", "S1", now,     HMS(9, 0, 0),   "Scheduled",   "C1", 1),
      Appt(6, "D1", "S1", now + 2, HMS(9, 0, 0),   "Rescheduled", "C1", 1),
      Appt(7, "D1", "S2", now - 1, HMS(9, 0, 0),   "Scheduled",   "C1", 1),
      Appt(8, "D1", "S1", now,     HMS(23, 30, 0), "Scheduled",   "C1", 1) }

\* the rows of a set as the table holds them, by availability_id
RECURSIVE SortRows(_)
SortRows(rows) ==
    IF rows = {} THEN <<>>
    ELSE LET first == CHOOSE r \in rows :
                          \A q \in rows : r.availability_id <= q.availability_id
         IN  <<first>> \o SortRows(rows \ {first})

DoctorIds == {"D1", "D2", "D3"}

NoResp == [status |-> 0, detail |-> "", body |-> NoBody]

\* no docreq_appointment_bl call is being run step by step
NoCall == [pc |-> "idle"]

NoVitalsOut == [status |-> 0, frequency_time |-> <<>>, flushed |-> 0, db_error |-> FALSE]

NoMedIn == [dosage_timing |-> "", medication_timing |-> <<>>, food_timing |-> <<>>]

NoMedOut == [status |-> 0, schedule |-> <<>>]

\* no nursing request has been made
IdleNursing ==
    /\ tbl_sp_appointments = [x \in {"SP1"} |->
                                [start_time |-> <<0, 0, 0>>, end_time |-> <<0, 0, 0>>]]
    /\ tbl_vitals_request = <<>>
    /\ tbl_vitals_time = <<>>
    /\ vitals_req = [sp_appointment_id |-> "", vitals_frequency_id |-> 0]
    /\ vitals_out = NoVitalsOut
    /\ med_in = NoMedIn
    /\ med_out = NoMedOut

Clients == {1, 2}

NoSlot == [doctor_id |-> "", clinic_name |-> "", day |-> <<0, 0, 0>>, slot |-> <<0, 0, "">>]

NoTxn == [new_code |-> Code("", 0, 0), subscriber_id |-> "", slot |-> NoSlot]

NoOp == [n |-> 0, kind |-> "none", status |-> 0,
         appointment_id |-> Code("", 0, 0), subscriber_id |-> "",
         date |-> 0, time |-> 0, before |-> <<>>]

IdleClients ==
    /\ pc = [c \in Clients |-> "idle"]
    /\ seen = [c \in Clients |-> NoSlot]
    /\ txn = [c \in Clients |-> NoTxn]
    /\ result = [c \in Clients |-> 0]
    /\ op = NoOp

InitSlots ==
    /\ today \in Todays
    /\ \E d \in Durations :
          tbl_doctor = [x \in {"D1", "D2"} |-> [avblty |-> IF x = "D1" THEN d ELSE 30]]
    /\ \E rows \in SUBSET RowChoices :
          /\ Cardinality(rows) <= MaxRows
          /\ tbl_doctoravblty = SortRows(rows)
    /\ \E booked \in SUBSET BookedChoices(today) :
          /\ Cardinality(booked) <= MaxBooked
          /\ tbl_doctorappointments = booked
    /\ req = "none"
    /\ resp = NoResp
    /\ tbl_idgenerator = [e \in {"DOCTORAPPOINTMENT"} |-> Code("ICDAP", 4, 8)]
    /\ IdleClients
    /\ IdleNursing
    /\ call = NoCall

\* GET: one call of docreq_appointment_bl
DocReq(doctor_id) ==
    /\ req' = doctor_id
    /\ resp' = docreq_appointment_bl(doctor_id, today)
    /\ UNCHANGED <<today, tbl_doctor, tbl_doctoravblty, tbl_doctorappointments>>
    /\ UNCHANGED <<bookingVars, vitalsVars, medVars, loopVars>>

NextSlots == \E doctor_id \in DoctorIds : DocReq(doctor_id)

SpecSlots == InitSlots /\ [][NextSlots]_vars

-----------------------------------------------------------------------------
(* Properties of the availability projection (SpecSlots).                   *)

Answered == resp.status = 200

\* the duration the answered call used
UsedDuration == timedelta_minutes(tbl_doctor[req].avblty)

ParsableRange(text) == Len(text) = 2 /\ IsClock12(text[1]) /\ IsClock12(text[2])

RangeStart(text) == strptime_I_M_p(text[1])
RangeEnd(text) == strptime_I_M_p(text[2])

Entries(day) == resp.body[day].clinic

HorizonDates == { today + i : i \in 0..6 }

\* the active rows of the requested doctor that apply to a date, in table order
MatchingRows(date) ==
    SelectSeq(tbl_doctoravblty,
              LAMBDA r : /\ r.doctor_id = req
                         /\ r.active_flag = 1
                         /\ strftime_a(date) \in r.days)

ActiveRows == SelectSeq(tbl_doctoravblty,
                        LAMBDA r : r.doctor_id = req /\ r.active_flag = 1)

\* the parsable range texts of a row, morning, afternoon, evening
ValidRanges(row) ==
    SelectSeq(<<row.morning_slot, row.afternoon_slot, row.evening_slot>>, ParsableRange)

(* C1. Slot containment: every slot start t offered in a clinic entry lies  *)
(* in one of the entry's windows together with its whole duration:          *)
(* start <= t and t + d <= end; no final partial slot is emitted.           *)
C1_SlotContainment ==
    Answered =>
        \A day \in DOMAIN resp.body :
            \A i \in 1..Len(Entries(day)) :
                LET e == Entries(day)[i]
                IN  \A k \in 1..Len(e.avblslots) :
                        LET t == strptime_I_M_p(e.avblslots[k])
                        IN  \E w \in 1..Len(e.timing) :
                                /\ RangeStart(e.timing[w]) <= t
                                /\ t + UsedDuration <= RangeEnd(e.timing[w])

(* C2. Conflict exclusion: no slot offered for a clinic on a date is the    *)
(* time of a Scheduled or Rescheduled appointment of the same doctor, the   *)
(* same clinic name and the same date.                                      *)
C2_ConflictExclusion ==
    Answered =>
        \A day \in DOMAIN resp.body :
            \A i \in 1..Len(Entries(day)) :
                LET e == Entries(day)[i]
                IN  \A a \in tbl_doctorappointments :
                        ( /\ a.doctor_id = req
                          /\ a.status \in {"Scheduled", "Rescheduled"}
                          /\ a.clinic_name = e.name
                          /\ a.appointment_date = strptime_d_m_Y(day) )
                        => \A k \in 1..Len(e.avblslots) :
                               /\ strptime_I_M_p(e.avblslots[k]) # a.appointment_time
                               /\ e.avblslots[k] # strftime_I_M_p(a.appointment_time)

\* a Rescheduled appointment sits on a slot of an answered entry's window,
\* and the entry still offers other slots
C2_Witness ==
    /\ Answered
    /\ \E day \in DOMAIN resp.body :
          \E i \in 1..Len(Entries(day)) :
              LET e == Entries(day)[i]
              IN  /\ e.avblslots # <<>>
                  /\ \E a \in tbl_doctorappointments :
                         /\ a.doctor_id = req
                         /\ a.status = "Rescheduled"
                         /\ a.clinic_name = e.name
                         /\ a.appointment_date = strptime_d_m_Y(day)
                         /\ \E w \in 1..Len(e.timing) :
                                /\ RangeStart(e.timing[w]) <= a.appointment_time
                                /\ a.appointment_time < RangeEnd(e.timing[w])
                                /\ (a.appointment_time - RangeStart(e.timing[w]))
                                       % UsedDuration = 0

(* C8 as stated. No availability is not an error: for an existing doctor    *)
(* with no availability row at all, or none matching a day, the call        *)
(* answers without an error and the affected days have empty clinic lists.  *)
C8_NoAvailabilityNeverAnError ==
    (req \in DOMAIN tbl_doctor) =>
        /\ Answered
        /\ \A date \in HorizonDates :
               MatchingRows(date) = <<>> =>
                   /\ strftime_d_m_Y(date) \in DOMAIN resp.body
                   /\ Entries(strftime_d_m_Y(date)) = <<>>

(* C8 amended. For an existing doctor with at least one active availability *)
(* row, the call answers without an error and every day of the horizon that *)
(* no row matches has an empty clinic list; for an existing doctor with no  *)
(* active availability row at all the call raises 404 "No availability      *)
(* found for this doctor".                                                  *)
C8_NoMatchingDayIsEmpty ==
    (req \in DOMAIN tbl_doctor) =>
        IF ActiveRows = <<>>
        THEN /\ resp.status = 404
             /\ resp.detail = "No availability found for this doctor"
        ELSE /\ Answered
             /\ \A date \in HorizonDates :
                    MatchingRows(date) = <<>> =>
                        /\ strftime_d_m_Y(date) \in DOMAIN resp.body
                        /\ Entries(strftime_d_m_Y(date)) = <<>>

\* an answered call with a day no row matches and a day some row matches
C8_Witness ==
    /\ Answered
    /\ \E d1, d2 \in HorizonDates :
          /\ MatchingRows(d1) = <<>>
          /\ Entries(strftime_d_m_Y(d1)) = <<>>
          /\ MatchingRows(d2) # <<>>
          /\ Entries(strftime_d_m_Y(d2)) # <<>>

(* C9. Horizon keys: an answered call has exactly one key for each of the   *)
(* 7 consecutive calendar days starting today, and a day on which no        *)
(* availability row applies is present with an empty clinic list.           *)
C9_HorizonKeys ==
    Answered =>
        /\ Cardinality(DOMAIN resp.body) = 7
        /\ { strptime_d_m_Y(day) : day \in DOMAIN resp.body } = HorizonDates
        /\ \A day \in DOMAIN resp.body :
               /\ strftime_d_m_Y(strptime_d_m_Y(day)) = day
               /\ MatchingRows(strptime_d_m_Y(day)) = <<>> => Entries(day) = <<>>

\* an answered call whose horizon crosses a month end and where today itself
\* has no applicable row
C9_Witness ==
    /\ Answered
    /\ MatchingRows(today) = <<>>
    /\ strftime_d_m_Y(today) \in DOMAIN resp.body
    /\ Entries(strftime_d_m_Y(today)) = <<>>
    /\ \E d1, d2 \in DOMAIN resp.body : d1[2] # d2[2]

(* C10. Malformed-window tolerance: a row with an unparsable range text     *)
(* raises no error; each clinic entry lists in timing exactly the parsable  *)
(* ranges of its row, and every offered slot starts inside a parsable range *)
(* of that row, so that no slot of a malformed range is emitted.            *)
C10_MalformedTolerance ==
    /\ resp.status \in {0, 200, 404}
    /\ (req \in DOMAIN tbl_doctor /\ ActiveRows # <<>>) => Answered
    /\ Answered =>
          \A day \in DOMAIN resp.body :
              LET rows == MatchingRows(strptime_d_m_Y(day))
              IN  /\ Len(Entries(day)) = Len(rows)
                  /\ \A i \in 1..Len(rows) :
                         LET e == Entries(day)[i]
                             valid == ValidRanges(rows[i])
                         IN  /\ e.timing = valid
                             /\ \A k \in 1..Len(e.avblslots) :
                                    \E w \in 1..Len(valid) :
                                        /\ RangeStart(valid[w])
                                              <= strptime_I_M_p(e.avblslots[k])
                                        /\ strptime_I_M_p(e.avblslots[k])
                                              < RangeEnd(valid[w])

\* an answered entry of a row holding one unparsable and one parsable range
C10_Witness ==
    /\ Answered
    /\ \E day \in DOMAIN resp.body :
          LET rows == MatchingRows(strptime_d_m_Y(day))
          IN  \E i \in 1..Len(rows) :
                  /\ Len(rows[i].morning_slot) = 2
                  /\ ~ParsableRange(rows[i].morning_slot)
                  /\ ParsableRange(rows[i].afternoon_slot)
                  /\ i <= Len(Entries(day))
                  /\ Entries(day)[i].timing = <<rows[i].afternoon_slot>>
                  /\ Entries(day)[i].avblslots # <<>>

\* the start times start, start + d, ... before the end of a range, as texts
GridSlots(text) ==
    LET n == IF RangeEnd(text) > RangeStart(text)
             THEN (RangeEnd(text) - RangeStart(text) + UsedDuration - 1) \div UsedDuration
             ELSE 0
    IN  [k \in 1..n |-> strftime_I_M_p(RangeStart(text) + (k - 1) * UsedDuration)]

RECURSIVE Flatten(_)
Flatten(lists) ==
    IF lists = <<>> THEN <<>> ELSE Head(lists) \o Flatten(Tail(lists))

\* every generated slot of a row: its parsable ranges in column order
FullSlots(row) ==
    Flatten([w \in 1..Len(ValidRanges(row)) |-> GridSlots(ValidRanges(row)[w])])

\* the Scheduled or Rescheduled appointments of the requested doctor for a
\* clinic name and a date
BookedFor(name, date) ==
    { a \in tbl_doctorappointments :
        /\ a.doctor_id = req
        /\ a.status \in {"Scheduled", "Rescheduled"}
        /\ a.clinic_name = name
        /\ a.appointment_date = date }

(* C11. Empty-booking pass-through: for a clinic and date with zero booked  *)
(* appointments, avblslots equals the full list of generated slots for that *)
(* clinic and date, in the same order.                                      *)
C11_EmptyBookingPassThrough ==
    Answered =>
        \A day \in DOMAIN resp.body :
            LET rows == MatchingRows(strptime_d_m_Y(day))
            IN  \A i \in 1..Len(rows) :
                    BookedFor(rows[i].clinic_name, strptime_d_m_Y(day)) = {}
                    => /\ i <= Len(Entries(day))
                       /\ Entries(day)[i].name = rows[i].clinic_name
                       /\ Entries(day)[i].avblslots = FullSlots(rows[i])

\* an entry without bookings of its own clinic offers all its slots although
\* the doctor has an appointment in another clinic that day at one of them
C11_Witness ==
    /\ Answered
    /\ \E day \in DOMAIN resp.body :
          LET rows == MatchingRows(strptime_d_m_Y(day))
          IN  \E i \in 1..Len(rows) :
                  /\ BookedFor(rows[i].clinic_name, strptime_d_m_Y(day)) = {}
                  /\ Len(Entries(day)[i].avblslots) >= 2
                  /\ Entries(day)[i].avblslots = FullSlots(rows[i])
                  /\ \E a \in tbl_doctorappointments :
                         /\ a.doctor_id = req
                         /\ a.status \in {"Scheduled", "Rescheduled"}
                         /\ a.clinic_name # rows[i].clinic_name
                         /\ a.appointment_date = strptime_d_m_Y(day)
                         /\ \E k \in 1..Len(Entries(day)[i].avblslots) :
                                Entries(day)[i].avblslots[k]
                                    = strftime_I_M_p(a.appointment_time)

\* the slot texts of the booked appointments of a clinic name and a date
BookedTexts(name, date) ==
    { strftime_I_M_p(a.appointment_time) : a \in BookedFor(name, date) }

(* C21. Slot order and duplicates: the slots listed for a clinic and date   *)
(* are those of the morning window, then the afternoon window, then the     *)
(* evening window, each in increasing time order, without the booked ones;  *)
(* a time covered by two overlapping windows appears twice and is not       *)
(* de-duplicated.                                                           *)
C21_WindowOrderKeepsDuplicates ==
    Answered =>
        \A day \in DOMAIN resp.body :
            LET rows == MatchingRows(strptime_d_m_Y(day))
            IN  \A i \in 1..Len(rows) :
                    /\ i <= Len(Entries(day))
                    /\ Entries(day)[i].avblslots =
                          SelectSeq(FullSlots(rows[i]),
                                    LAMBDA t : t \notin BookedTexts(rows[i].clinic_name,
                                                                    strptime_d_m_Y(day)))

\* a row with overlapping morning and afternoon windows: one time is listed
\* twice, and a later morning slot precedes an earlier afternoon slot
C21_Witness ==
    /\ Answered
    /\ \E day \in DOMAIN resp.body :
          LET rows == MatchingRows(strptime_d_m_Y(day))
          IN  \E i \in 1..Len(rows) :
                  /\ Len(ValidRanges(rows[i])) = 2
                  /\ RangeStart(rows[i].afternoon_slot) < RangeEnd(rows[i].morning_slot)
                  /\ \E j, k \in 1..Len(Entries(day)[i].avblslots) :
                         /\ j < k
                         /\ Entries(day)[i].avblslots[j] = Entries(day)[i].avblslots[k]

(* C22. Weekday membership: a clinic entry for an availability row appears  *)
(* under a date of the horizon if and only if the row's days contain that   *)
(* date's weekday; each matching row contributes exactly one clinic entry   *)
(* to that date, in row order.                                              *)
C22_WeekdayMembership ==
    Answered =>
        \A date \in HorizonDates :
            LET day  == strftime_d_m_Y(date)
                rows == MatchingRows(date)
            IN  /\ day \in DOMAIN resp.body
                /\ Len(Entries(day)) = Len(rows)
                /\ \A i \in 1..Len(rows) :
                       /\ Entries(day)[i].name = rows[i].clinic_name
                       /\ Entries(day)[i].address = rows[i].clinic_address
                       /\ Entries(day)[i].timing = ValidRanges(rows[i])

\* two rows match one date, which has their two entries, and one of them does
\* not match another date, which has one entry
C22_Witness ==
    /\ Answered
    /\ \E d1, d2 \in HorizonDates :
          /\ Len(MatchingRows(d1)) = 2
          /\ Len(Entries(strftime_d_m_Y(d1))) = 2
          /\ Len(MatchingRows(d2)) = 1
          /\ Len(Entries(strftime_d_m_Y(d2))) = 1
          /\ Len(ActiveRows) = 2

-----------------------------------------------------------------------------
(* docreq_appointment_bl run one loop iteration at a time, lines 707-789.   *)
(*                                                                          *)
(* call is the frame of the running call: a and d are the positions of      *)
(* "for avbl" and "for day", s the position of "for slot in all_slots".     *)
(* The handler is synchronous: once entered, its next iteration is taken.   *)

MaxSlots == 8

\* mutant: the loop runs until start_time equals end_time
while_test_unequal(start_time, end_time) == start_time # end_time

\* while start_time < end_time, line 762
while_test(start_time, end_time) == start_time < end_time

\* lines 709-728: the two lookups, the 404s, the empty response
CallEnter(doctor_id) ==
    /\ call.pc = "idle"
    /\ req' = doctor_id
    /\ LET doctor_data              == get_doctor_by_id(doctor_id)
           doctor_availability_data == doctors_availability_active_helper(doctor_id)
       IN  IF doctor_data = <<>>
           THEN /\ resp' = [status |-> 404, detail |-> "No doctor found with this ID",
                            body |-> NoBody]
                /\ call' = [pc |-> "raised"]
           ELSE IF doctor_availability_data = <<>>
           THEN /\ resp' = [status |-> 404,
                            detail |-> "No availability found for this doctor",
                            body |-> NoBody]
                /\ call' = [pc |-> "raised"]
           ELSE /\ UNCHANGED resp
                /\ call' = [pc |-> "for_day",
                            doctor_id |-> doctor_id,
                            rows |-> doctor_availability_data,
                            time_per_appointment |-> doctor_data[1].avblty,
                            a |-> 1, d |-> 1, all_slots |-> <<>>, s |-> 1,
                            start_time |-> 0, end_time |-> 0,
                            timing |-> <<>>, total_slots |-> <<>>,
                            date_based_response |->
                                [day \in SeqRange(next_7_days(today)) |->
                                    [clinic |-> <<>>]]]
    /\ UNCHANGED <<today, tbl_doctor, tbl_doctoravblty, tbl_doctorappointments>>
    /\ UNCHANGED <<bookingVars, vitalsVars, medVars>>

\* the heads of "for avbl" and "for day" and the weekday test, lines 730-753;
\* past the last row the call returns, line 789
ForDay ==
    /\ call.pc = "for_day"
    /\ IF call.a > Len(call.rows)
       THEN /\ call' = [call EXCEPT !.pc = "returned"]
            /\ resp' = [status |-> 200, detail |-> "",
                        body |-> call.date_based_response]
       ELSE /\ UNCHANGED resp
            /\ IF call.d > HorizonDays
               THEN call' = [call EXCEPT !.a = @ + 1, !.d = 1]
               ELSE LET avbl == call.rows[call.a]
                        day  == next_7_days(today)[call.d]
                    IN  IF strftime_a(strptime_d_m_Y(day)) \notin avbl.days
                        THEN call' = [call EXCEPT !.d = @ + 1]
                        ELSE call' = [call EXCEPT !.all_slots = all_slots(avbl),
                                                  !.s = 1,
                                                  !.timing = <<>>,
                                                  !.total_slots = <<>>,
                                                  !.pc = "for_slot"]
    /\ UNCHANGED <<today, tbl_doctor, tbl_doctoravblty, tbl_doctorappointments, req>>
    /\ UNCHANGED <<bookingVars, vitalsVars, medVars>>

\* the head of "for slot in all_slots" and the try block up to the loop,
\* lines 755-761 and 765-767; past the last range the entry is appended,
\* lines 769-787
ForSlot ==
    /\ call.pc = "for_slot"
    /\ IF call.s > Len(call.all_slots)
       THEN LET avbl      == call.rows[call.a]
                day       == next_7_days(today)[call.d]
                booked    == booked_slots(
                                 clinic_data_active_helper(call.doctor_id, today),
                                 avbl, day)
                available == SelectSeq(call.total_slots,
                                       LAMBDA slot : slot \notin booked)
                entry     == [name      |-> avbl.clinic_name,
                              address   |-> avbl.clinic_address,
                              timing    |-> call.timing,
                              avblslots |-> IF booked = {} THEN call.total_slots
                                            ELSE available]
            IN  call' = [call EXCEPT
                            !.date_based_response[day].clinic = Append(@, entry),
                            !.d = @ + 1,
                            !.pc = "for_day"]
       ELSE LET slot == call.all_slots[call.s]
            IN  IF Len(slot) >= 2 /\ slot_parses(slot)
                THEN call' = [call EXCEPT !.start_time = strptime_I_M_p(slot[1]),
                                          !.end_time = strptime_I_M_p(slot[2]),
                                          !.timing = Append(@, slot),
                                          !.pc = "while"]
                ELSE call' = [call EXCEPT !.s = @ + 1]
    /\ UNCHANGED <<slotVars, bookingVars, vitalsVars, medVars>>

\* one test of the while loop and, when it passes, one iteration, lines 762-764
WhileLoop ==
    /\ call.pc = "while"
    /\ IF while_test(call.start_time, call.end_time)
       THEN /\ Len(call.total_slots) < MaxSlots
            /\ call' = [call EXCEPT
                            !.total_slots = Append(@, strftime_I_M_p(call.start_time)),
                            !.start_time = @ + timedelta_minutes(call.time_per_appointment)]
       ELSE call' = [call EXCEPT !.s = @ + 1, !.pc = "for_slot"]
    /\ UNCHANGED <<slotVars, bookingVars, vitalsVars, medVars>>

InitLoop ==
    /\ today \in Todays
    /\ \E d \in Durations :
          tbl_doctor = [x \in {"D1", "D2"} |-> [avblty |-> IF x = "D1" THEN d ELSE 30]]
    /\ \E rows \in SUBSET RowChoices :
          /\ Cardinality(rows) <= MaxRows
          /\ tbl_doctoravblty = SortRows(rows)
    /\ tbl_doctorappointments \in
          { {}, { b \in BookedChoices(today) : b.status = "Scheduled" } }
    /\ req = "none"
    /\ resp = NoResp
    /\ tbl_idgenerator = [e \in {"DOCTORAPPOINTMENT"} |-> Code("ICDAP", 4, 8)]
    /\ IdleClients
    /\ IdleNursing
    /\ call = NoCall

RunCall == ForDay \/ ForSlot \/ WhileLoop

NextLoop ==
    \/ \E doctor_id \in DoctorIds : CallEnter(doctor_id)
    \/ ForDay
    \/ ForSlot
    \/ WhileLoop

SpecLoop == InitLoop /\ [][NextLoop]_vars /\ WF_vars(RunCall)

-----------------------------------------------------------------------------
(* Properties of the running call (SpecLoop).                               *)

Running == call.pc \in {"for_day", "for_slot", "while"}

Returned == call.pc = "returned" /\ resp.status = 200

(* C20. Termination: for every finite list of availability windows, every   *)
(* finite list of bookings and every slot duration > 0, the slot-generation *)
(* loop of docreq_appointment_bl terminates and the call returns.           *)
C20_Terminates == Running ~> Returned

\* a call that went through the while loop of a window its duration does not
\* divide has returned
C20_Witness ==
    /\ Returned
    /\ call.time_per_appointment > 0
    /\ \E day \in DOMAIN resp.body :
          \E i \in 1..Len(Entries(day)) :
              /\ Len(Entries(day)[i].avblslots) >= 3
              /\ \E w \in 1..Len(Entries(day)[i].timing) :
                     (RangeEnd(Entries(day)[i].timing[w])
                        - RangeStart(Entries(day)[i].timing[w])) % UsedDuration # 0

\* the step-by-step call returns what docreq_appointment_bl computes, and the
\* bound on total_slots is never what stops the loop
LoopAgrees ==
    /\ call.pc \in {"returned", "raised"} => resp = docreq_appointment_bl(req, today)
    /\ (call.pc = "while" /\ while_test(call.start_time, call.end_time))
          => Len(call.total_slots) < MaxSlots

-----------------------------------------------------------------------------
(* Booking: id_incrementer, create_appointment_bl, create_appointment_dal.  *)
(*                                                                          *)
(* A client first asks for the availability of a doctor and picks one of    *)
(* the offered slots, then posts a CreateAppointment for it.  The two are   *)
(* separate requests.  create_appointment_bl runs in one transaction: its   *)
(* reads (subscriber, IdGenerator row) see the state committed when the     *)
(* transaction starts; its writes (the IdGenerator update and the insert,   *)
(* both flushed) take the row lock and are applied at commit, so the        *)
(* write halves of two transactions do not overlap.                         *)

MaxAppts == 2

RECURSIVE Digits(_)
Digits(n) == IF n < 10 THEN 1 ELSE 1 + Digits(n \div 10)

\* str(int(number) + 1).zfill(len(number)) behind the same prefix
id_incrementer(last_code) ==
    Code(last_code.prefix,
         IF Digits(last_code.number + 1) > last_code.width
             THEN Digits(last_code.number + 1) ELSE last_code.width,
         last_code.number + 1)

tbl_subscriber == [mobile \in {"M1", "M2"} |->
                     [subscriber_id |-> IF mobile = "M1" THEN "S1" ELSE "S2"]]

\* get_data_by_mobile(table=Subscriber, ...): the row or None
get_data_by_mobile(mobile) ==
    IF mobile \in DOMAIN tbl_subscriber THEN <<tbl_subscriber[mobile]>> ELSE <<>>

Mobile(c) == IF c = 1 THEN "M1" ELSE "M2"

\* the CreateAppointment body a client posts for an offered slot: the date as
\* "%Y-%m-%d" and the time as "%H:%M:%S"
CreateAppointment(mobile, offered) ==
    [date |-> <<offered.day[3], offered.day[2], offered.day[1]>>,
     time |-> strftime_H_M_S(strptime_I_M_p(offered.slot)),
     subscriber_mobile |-> mobile,
     doctor_id |-> offered.doctor_id,
     clinic_name |-> offered.clinic_name]

strptime_Y_m_d(text) == strptime_d_m_Y(<<text[3], text[2], text[1]>>)

\* the DoctorAppointment object of lines 57-69
appointment_data(appointment, subscriber_id, new_appointment_id) ==
    [appointment_id |-> new_appointment_id,
     doctor_id |-> appointment.doctor_id,
     subscriber_id |-> subscriber_id,
     appointment_date |-> strptime_Y_m_d(appointment.date),
     appointment_time |-> strptime_H_M_S(appointment.time),
     status |-> "Scheduled",
     clinic_name |-> appointment.clinic_name,
     active_flag |-> 1]

SameSlot(a, b) ==
    /\ a.doctor_id = b.doctor_id
    /\ a.clinic_name = b.clinic_name
    /\ a.appointment_date = b.appointment_date
    /\ a.appointment_time = b.appointment_time

\* mutant: the insert is refused when the slot holds an active appointment
create_appointment_dal_unique_slot(row, table) ==
    IF \/ \E a \in table : a.appointment_id = row.appointment_id
       \/ \E a \in table : a.status \in {"Scheduled", "Rescheduled"} /\ SameSlot(a, row)
    THEN [ok |-> FALSE, table |-> table]
    ELSE [ok |-> TRUE, table |-> table \cup {row}]

\* add + flush: only the primary key appointment_id can refuse the row
create_appointment_dal(row, table) ==
    IF \E a \in table : a.appointment_id = row.appointment_id
    THEN [ok |-> FALSE, table |-> table]          \* IntegrityError, rollback
    ELSE [ok |-> TRUE, table |-> table \cup {row}]

\* the slots one availability call offers for a doctor
OfferedSlots(doctor_id) ==
    LET r == docreq_appointment_bl(doctor_id, today)
    IN  IF r.status # 200 THEN {}
        ELSE UNION { UNION { { [doctor_id |-> doctor_id,
                                 clinic_name |-> r.body[day].clinic[i].name,
                                 day |-> day,
                                 slot |-> r.body[day].clinic[i].avblslots[k]] :
                               k \in 1..Len(r.body[day].clinic[i].avblslots) } :
                             i \in 1..Len(r.body[day].clinic) } :
                     day \in DOMAIN r.body }

\* GET availability, then the client picks an offered slot
Observe(c, doctor_id) ==
    /\ pc[c] = "idle"
    /\ \E offered \in OfferedSlots(doctor_id) :
          seen' = [seen EXCEPT ![c] = offered]
    /\ pc' = [pc EXCEPT ![c] = "observed"]
    /\ UNCHANGED <<tbl_idgenerator, txn, result, op>>
    /\ UNCHANGED <<slotVars, vitalsVars, medVars, loopVars>>

InFlight == { c \in Clients : pc[c] = "flushing" }

\* create_appointment_bl up to the IdGenerator read, lines 39-54
CreateStart(c, mobile) ==
    /\ pc[c] = "observed"
    /\ Cardinality(tbl_doctorappointments) + Cardinality(InFlight) < MaxAppts
    /\ LET appointment     == CreateAppointment(mobile, seen[c])
           subscriber_data == get_data_by_mobile(mobile)
       IN  IF subscriber_data = <<>>
           THEN \* None.subscriber_id: "An unexpected error occurred BL"
                /\ result' = [result EXCEPT ![c] = 500]
                /\ pc' = [pc EXCEPT ![c] = "idle"]
                /\ UNCHANGED txn
           ELSE /\ txn' = [txn EXCEPT ![c] =
                             [new_code |-> id_incrementer(
                                               tbl_idgenerator["DOCTORAPPOINTMENT"]),
                              subscriber_id |-> subscriber_data[1].subscriber_id,
                              slot |-> seen[c]]]
                /\ pc' = [pc EXCEPT ![c] = "flushing"]
                /\ UNCHANGED result
    /\ UNCHANGED <<tbl_idgenerator, seen, op>>
    /\ UNCHANGED <<slotVars, vitalsVars, medVars, loopVars>>

\* the row the open transaction of a client is about to insert
PendingRow(c) ==
    appointment_data(CreateAppointment(Mobile(c), txn[c].slot),
                     txn[c].subscriber_id, txn[c].new_code)

\* the flushes and the commit, lines 54-74 and utils.py lines 44-49
CreateFinish(c) ==
    /\ pc[c] = "flushing"
    /\ LET done == create_appointment_dal(PendingRow(c), tbl_doctorappointments)
       IN  /\ tbl_doctorappointments' = done.table
           /\ IF done.ok
              THEN /\ tbl_idgenerator' =
                         [tbl_idgenerator EXCEPT !["DOCTORAPPOINTMENT"] = txn[c].new_code]
                   /\ result' = [result EXCEPT ![c] = 201]
              ELSE /\ UNCHANGED tbl_idgenerator
                   /\ result' = [result EXCEPT ![c] = 500]
    /\ pc' = [pc EXCEPT ![c] = "idle"]
    /\ txn' = [txn EXCEPT ![c] = NoTxn]
    /\ UNCHANGED <<seen, op>>
    /\ UNCHANGED <<today, tbl_doctor, tbl_doctoravblty, req, resp>>
    /\ UNCHANGED <<vitalsVars, medVars, loopVars>>

\* check_data_exist_utils(table=Subscriber, field="mobile", ...): the row, or
\* the string "unique" (held here as the empty sequence) when there is none
check_data_exist_utils(mobile) ==
    IF mobile \in DOMAIN tbl_subscriber THEN <<tbl_subscriber[mobile]>> ELSE <<>>

MaxChanges == 2

\* the UpdateAppointment body a client posts to move an appointment to an
\* offered slot
UpdateAppointment(mobile, offered, appointment_id) ==
    [date |-> <<offered.day[3], offered.day[2], offered.day[1]>>,
     time |-> strftime_H_M_S(strptime_I_M_p(offered.slot)),
     subscriber_mobile |-> mobile,
     doctor_id |-> offered.doctor_id,
     appointment_id |-> appointment_id]

\* the CancelAppointment body
CancelAppointment(mobile, doctor_id, appointment_id, active_flag) ==
    [appointment_id |-> appointment_id,
     doctor_id |-> doctor_id,
     subscriber_mobile |-> mobile,
     active_flag |-> active_flag]

\* the stored row of an appointment_id (the primary key): <<row>> or <<>>
RowOf(table, appointment_id) ==
    IF \E a \in table : a.appointment_id = appointment_id
    THEN <<CHOOSE a \in table : a.appointment_id = appointment_id>>
    ELSE <<>>

\* mutant: the row keeps its date and time
update_appointment_dal_keeps_slot(appointment, subscriber_id, date, time, table) ==
    LET found == { a \in table : a.appointment_id = appointment.appointment_id }
    IN  IF found = {}
        THEN [status |-> 404, table |-> table]
        ELSE [status |-> 200,
              table |-> (table \ found) \cup
                        { [a EXCEPT !.doctor_id = appointment.doctor_id,
                                    !.subscriber_id = subscriber_id,
                                    !.status = "Rescheduled"] : a \in found }]

\* the row is looked up by appointment_id alone; doctor, subscriber, date,
\* time and status are overwritten
update_appointment_dal(appointment, subscriber_id, date, time, table) ==
    LET found == { a \in table : a.appointment_id = appointment.appointment_id }
    IN  IF found = {}
        THEN [status |-> 404, table |-> table]       \* "Appointment not found"
        ELSE [status |-> 200,
              table |-> (table \ found) \cup
                        { [a EXCEPT !.doctor_id = appointment.doctor_id,
                                    !.subscriber_id = subscriber_id,
                                    !.appointment_date = date,
                                    !.appointment_time = time,
                                    !.status = "Rescheduled"] : a \in found }]

\* the row is looked up by appointment_id and subscriber_id; active_flag takes
\* the value the request carries
cancel_appointment_dal(appointment, subscriber_id, table) ==
    LET found == { a \in table : /\ a.appointment_id = appointment.appointment_id
                                 /\ a.subscriber_id = subscriber_id }
    IN  IF found = {}
        THEN [status |-> 404, table |-> table]       \* "Appointment not found"
        ELSE [status |-> 200,
              table |-> (table \ found) \cup
                        { [a EXCEPT !.active_flag = appointment.active_flag,
                                    !.status = "Cancelled"] : a \in found }]

\* inactive rows of the subscriber that are Completed or Cancelled
past_appointment_dal(subscriber_id) ==
    { a \in tbl_doctorappointments :
        /\ a.subscriber_id = subscriber_id
        /\ a.active_flag = 0
        /\ a.status \in {"Completed", "Cancelled"} }

\* appointment ids a request may name: the stored ones and one never issued
AppointmentIds ==
    { a.appointment_id : a \in tbl_doctorappointments } \cup {Code("ICDAP", 2, 98)}

\* update_appointment_bl: the client moves an appointment to the slot it was
\* offered
update_appointment_bl(c, mobile, appointment_id) ==
    /\ pc[c] = "observed"
    /\ op.n < MaxChanges
    /\ LET appointment        == UpdateAppointment(mobile, seen[c], appointment_id)
           existing_subscriber == check_data_exist_utils(mobile)
           before             == RowOf(tbl_doctorappointments, appointment_id)
       IN  IF existing_subscriber = <<>>
           THEN \* "unique".subscriber_id: "An unexpected error occurred BL"
                /\ op' = [n |-> op.n + 1, kind |-> "update", status |-> 500,
                          appointment_id |-> appointment_id, subscriber_id |-> "",
                          date |-> strptime_Y_m_d(appointment.date),
                          time |-> strptime_H_M_S(appointment.time),
                          before |-> before]
                /\ UNCHANGED tbl_doctorappointments
           ELSE LET subscriber_id == existing_subscriber[1].subscriber_id
                    done == update_appointment_dal(
                                appointment, subscriber_id,
                                strptime_Y_m_d(appointment.date),
                                strptime_H_M_S(appointment.time),
                                tbl_doctorappointments)
                IN  /\ tbl_doctorappointments' = done.table
                    /\ op' = [n |-> op.n + 1, kind |-> "update",
                              status |-> done.status,
                              appointment_id |-> appointment_id,
                              subscriber_id |-> subscriber_id,
                              date |-> strptime_Y_m_d(appointment.date),
                              time |-> strptime_H_M_S(appointment.time),
                              before |-> before]
    /\ pc' = [pc EXCEPT ![c] = "idle"]
    /\ UNCHANGED <<tbl_idgenerator, seen, txn, result>>
    /\ UNCHANGED <<today, tbl_doctor, tbl_doctoravblty, req, resp>>
    /\ UNCHANGED <<vitalsVars, medVars, loopVars>>

\* cancel_appointment_bl
cancel_appointment_bl(c, mobile, appointment_id, active_flag) ==
    /\ pc[c] = "idle"
    /\ op.n < MaxChanges
    /\ LET appointment        == CancelAppointment(mobile, "D1", appointment_id,
                                                   active_flag)
           existing_subscriber == check_data_exist_utils(mobile)
           before             == RowOf(tbl_doctorappointments, appointment_id)
       IN  IF existing_subscriber = <<>>
           THEN \* "unique".subscriber_id: "An unexpected error occurred BL"
                /\ op' = [n |-> op.n + 1, kind |-> "cancel", status |-> 500,
                          appointment_id |-> appointment_id, subscriber_id |-> "",
                          date |-> 0, time |-> 0, before |-> before]
                /\ UNCHANGED tbl_doctorappointments
           ELSE LET subscriber_id == existing_subscriber[1].subscriber_id
                    done == cancel_appointment_dal(appointment, subscriber_id,
                                                   tbl_doctorappointments)
                IN  /\ tbl_doctorappointments' = done.table
                    /\ op' = [n |-> op.n + 1, kind |-> "cancel",
                              status |-> done.status,
                              appointment_id |-> appointment_id,
                              subscriber_id |-> subscriber_id,
                              date |-> 0, time |-> 0, before |-> before]
    /\ UNCHANGED <<tbl_idgenerator, pc, seen, txn, result>>
    /\ UNCHANGED <<today, tbl_doctor, tbl_doctoravblty, req, resp>>
    /\ UNCHANGED <<vitalsVars, medVars, loopVars>>

BookingRows ==
    << Row(1, "D1", "C1", "A1", {"Wed"},
           <<T(9, 0, "AM"), T(10, 0, "AM")>>, <<>>, <<>>, 1),
       Row(2, "D1", "C2", "A2", {"Wed", "Thu"},
           <<>>, <<T(2, 0, "PM"), T(2, 30, "PM")>>, <<>>, 1) >>

Init ==
    /\ today = strptime_d_m_Y(<<25, 2, 2026>>)
    /\ tbl_doctor = [x \in {"D1"} |-> [avblty |-> 30]]
    /\ tbl_doctoravblty = BookingRows
    /\ tbl_doctorappointments = {}
    /\ req = "none"
    /\ resp = NoResp
    /\ tbl_idgenerator = [e \in {"DOCTORAPPOINTMENT"} |-> Code("ICDAP", 2, 98)]
    /\ IdleClients
    /\ IdleNursing
    /\ call = NoCall

Next ==
    \E c \in Clients :
        \/ Observe(c, "D1")
        \/ \E mobile \in {Mobile(c), "M0"} : CreateStart(c, mobile)
        \/ CreateFinish(c)

Spec == Init /\ [][Next]_vars

\* One request at a time: appointments are created, moved and cancelled by
\* the subscribers in any order.
Mobiles == {"M1", "M2", "M0"}

\* clinic C1 sits on two days; clinic C2 shares a day and a time with it
ManageRows ==
    << Row(1, "D1", "C1", "A1", {"Wed", "Thu"},
           <<T(9, 0, "AM"), T(10, 0, "AM")>>, <<>>, <<>>, 1),
       Row(2, "D1", "C2", "A2", {"Wed"},
           <<T(9, 0, "AM"), T(9, 30, "AM")>>, <<>>, <<>>, 1) >>

InitManage ==
    /\ today = strptime_d_m_Y(<<25, 2, 2026>>)
    /\ tbl_doctor = [x \in {"D1"} |-> [avblty |-> 30]]
    /\ tbl_doctoravblty = ManageRows
    /\ tbl_doctorappointments = {}
    /\ req = "none"
    /\ resp = NoResp
    /\ tbl_idgenerator = [e \in {"DOCTORAPPOINTMENT"} |-> Code("ICDAP", 2, 98)]
    /\ IdleClients
    /\ IdleNursing
    /\ call = NoCall

NextManage ==
    \/ Observe(1, "D1")
    \/ \E mobile \in DOMAIN tbl_subscriber : CreateStart(1, mobile)
    \/ CreateFinish(1)
    \/ \E mobile \in Mobiles, appointment_id \in AppointmentIds :
           update_appointment_bl(1, mobile, appointment_id)
    \/ \E mobile \in Mobiles, appointment_id \in AppointmentIds,
             active_flag \in {0, 1} :
           cancel_appointment_bl(1, mobile, appointment_id, active_flag)

SpecManage == InitManage /\ [][NextManage]_vars

-----------------------------------------------------------------------------
(* Properties of booking (Spec).                                            *)

ActiveStatus == {"Scheduled", "Rescheduled"}

\* the appointments stored on the slot a client was offered
OnSeenSlot(c) ==
    { a \in tbl_doctorappointments :
        /\ seen[c] # NoSlot
        /\ a.doctor_id = seen[c].doctor_id
        /\ a.clinic_name = seen[c].clinic_name
        /\ a.appointment_date = strptime_d_m_Y(seen[c].day)
        /\ a.appointment_time = strptime_I_M_p(seen[c].slot) }

(* C3. Double-booking race: a create_appointment_bl call whose generated    *)
(* appointment_id is unused always succeeds and stores a Scheduled row for  *)
(* the requested slot, whatever the slot already holds; so two requests     *)
(* that were both offered the same slot both succeed (C3_Witness).          *)
C3_CreateIgnoresHeldSlot ==
    [][ \A c \in Clients :
          ( /\ pc[c] = "flushing"
            /\ pc'[c] = "idle"
            /\ \A a \in tbl_doctorappointments :
                   a.appointment_id # txn[c].new_code )
          => /\ result'[c] = 201
             /\ tbl_doctorappointments' = tbl_doctorappointments \cup {PendingRow(c)}
             /\ PendingRow(c).status = "Scheduled" ]_vars

\* both clients were offered the same slot, both calls succeeded, and two
\* Scheduled appointments of different subscribers sit on that slot
C3_Witness ==
    /\ seen[1] # NoSlot
    /\ seen[1] = seen[2]
    /\ result[1] = 201
    /\ result[2] = 201
    /\ \E a, b \in OnSeenSlot(1) :
          /\ a.subscriber_id = "S1"
          /\ b.subscriber_id = "S2"
          /\ a.status = "Scheduled"
          /\ b.status = "Scheduled"
          /\ a.appointment_id # b.appointment_id

(* C4. After any sequence of create_appointment_bl calls at most one        *)
(* Scheduled or Rescheduled appointment exists per doctor, clinic, date and *)
(* time: a request for a held slot is rejected and stores nothing.          *)
C4_AtMostOneActivePerSlot ==
    \A a, b \in tbl_doctorappointments :
        ( /\ a.status \in ActiveStatus
          /\ b.status \in ActiveStatus
          /\ SameSlot(a, b) )
        => a = b

(* C28. ID uniqueness: whatever the interleaving, no two id_incrementer     *)
(* calls for the entity return the same ID: the IDs handed to two open      *)
(* transactions differ, and none is the ID of a stored appointment; and a   *)
(* call returns the stored last_code with its number increased by one,      *)
(* behind the same prefix and padded to the width of the stored number.     *)
C28_IdsUnique ==
    /\ \A c1, c2 \in InFlight :
           c1 # c2 => txn[c1].new_code # txn[c2].new_code
    /\ \A c \in InFlight :
           \A a \in tbl_doctorappointments : a.appointment_id # txn[c].new_code
    /\ LET last_code == tbl_idgenerator["DOCTORAPPOINTMENT"]
           new_code  == id_incrementer(last_code)
       IN  /\ new_code.prefix = last_code.prefix
           /\ new_code.number = last_code.number + 1
           /\ new_code.width >= last_code.width

-----------------------------------------------------------------------------
(* Properties of appointment management (SpecManage).                       *)

Cancelled == op.kind = "cancel" /\ op.status = 200

Updated == op.kind = "update" /\ op.status = 200

\* the stored row the last update or cancel call named
NamedRows == { a \in tbl_doctorappointments : a.appointment_id = op.appointment_id }

\* the slot an appointment sits on, as an availability answer would list it
SlotAt(doctor_id, clinic_name, date, time) ==
    [doctor_id |-> doctor_id,
     clinic_name |-> clinic_name,
     day |-> strftime_d_m_Y(date),
     slot |-> strftime_I_M_p(time)]

SlotOf(a) == SlotAt(a.doctor_id, a.clinic_name, a.appointment_date, a.appointment_time)

\* every slot the availability rows of a doctor generate over the horizon,
\* booked or not
Generated(doctor_id) ==
    LET rows == doctors_availability_active_helper(doctor_id)
    IN  UNION { UNION { { [doctor_id |-> doctor_id,
                           clinic_name |-> rows[i].clinic_name,
                           day |-> strftime_d_m_Y(date),
                           slot |-> generate(all_slots(rows[i]),
                                             tbl_doctor[doctor_id].avblty).slots[k]] :
                          k \in 1..Len(generate(all_slots(rows[i]),
                                                tbl_doctor[doctor_id].avblty).slots) } :
                        i \in { x \in 1..Len(rows) :
                                  strftime_a(date) \in rows[x].days } } :
                date \in HorizonDates }

\* the Scheduled or Rescheduled appointments on the slot of row a, a excepted
OtherHolders(a) ==
    { b \in tbl_doctorappointments :
        /\ b.appointment_id # a.appointment_id
        /\ b.status \in ActiveStatus
        /\ SameSlot(a, b) }

(* C23. After a successful cancel_appointment the appointment has status    *)
(* "Cancelled" and active_flag = 0, and past_appointment_dal returns it for *)
(* its subscriber.                                                          *)
C23_CancelMarksInactive ==
    Cancelled =>
        \A a \in NamedRows :
            /\ a.status = "Cancelled"
            /\ a.active_flag = 0
            /\ a \in past_appointment_dal(a.subscriber_id)

(* C24. Whatever create, update and cancel calls were made, every doctor    *)
(* appointment whose status is Scheduled or Rescheduled has active_flag 1.  *)
C24_ActiveStatusHasActiveFlag ==
    \A a \in tbl_doctorappointments :
        a.status \in ActiveStatus => a.active_flag = 1

(* C25. Cancellation releases the slot: when an appointment that occupied a *)
(* generated slot of its clinic and date has been cancelled and no other    *)
(* Scheduled or Rescheduled appointment holds that clinic, date and time,   *)
(* the availability of the doctor lists the slot again.                     *)
C25_CancelReleasesSlot ==
    (Cancelled /\ op.before # <<>>) =>
        LET a == op.before[1]
        IN  ( /\ a.status \in ActiveStatus
              /\ SlotOf(a) \in Generated(a.doctor_id)
              /\ OtherHolders(a) = {} )
            => SlotOf(a) \in OfferedSlots(a.doctor_id)

C25_Witness ==
    /\ Cancelled
    /\ op.before # <<>>
    /\ op.before[1].status \in ActiveStatus
    /\ SlotOf(op.before[1]) \in Generated(op.before[1].doctor_id)
    /\ OtherHolders(op.before[1]) = {}
    /\ SlotOf(op.before[1]) \in OfferedSlots(op.before[1].doctor_id)

(* C26. Rescheduling moves the exclusion: after a successful update that    *)
(* asks for another date or time, the availability of the doctor does not   *)
(* list the new time for the appointment's clinic on the new date, and it   *)
(* lists the old time on the old date again when that was a generated slot  *)
(* that no other Scheduled or Rescheduled appointment holds.                *)
C26_RescheduleMovesExclusion ==
    (Updated /\ op.before # <<>>) =>
        LET a == op.before[1]
        IN  (op.date # a.appointment_date \/ op.time # a.appointment_time)
            => /\ SlotAt(a.doctor_id, a.clinic_name, op.date, op.time)
                      \notin OfferedSlots(a.doctor_id)
               /\ ( /\ SlotOf(a) \in Generated(a.doctor_id)
                    /\ OtherHolders(a) = {} )
                  => SlotOf(a) \in OfferedSlots(a.doctor_id)

\* an appointment was moved from a generated slot to a generated slot of its
\* clinic on another date at another time
C26_Witness ==
    /\ Updated
    /\ op.before # <<>>
    /\ op.date # op.before[1].appointment_date
    /\ op.time # op.before[1].appointment_time
    /\ op.before[1].status = "Scheduled"
    /\ SlotOf(op.before[1]) \in Generated(op.before[1].doctor_id)
    /\ SlotOf(op.before[1]) \in OfferedSlots(op.before[1].doctor_id)
    /\ SlotAt(op.before[1].doctor_id, op.before[1].clinic_name, op.date, op.time)
           \in Generated(op.before[1].doctor_id)
    /\ SlotAt(op.before[1].doctor_id, op.before[1].clinic_name, op.date, op.time)
           \notin OfferedSlots(op.before[1].doctor_id)

\* the answer of docreq_appointment_bl for the doctor of the catalogue
Projection == docreq_appointment_bl("D1", today).body

(* C27. Booking frame: a step that adds a Scheduled appointment for clinic  *)
(* C on date D leaves the date keys of the availability answer, the number  *)
(* and order of the clinic entries, and every name, address and timing list *)
(* as they were, and changes avblslots only in entries of clinic C on D.    *)
C27_BookingFrame ==
    [][ \A new \in tbl_doctorappointments' :
          ( /\ new \notin tbl_doctorappointments
            /\ tbl_doctorappointments' = tbl_doctorappointments \cup {new}
            /\ new.status = "Scheduled" )
          => \A before \in {Projection}, after \in {Projection'} :
                 /\ DOMAIN after = DOMAIN before
                 /\ \A day \in DOMAIN before :
                       \A es \in {before[day].clinic}, fs \in {after[day].clinic} :
                           /\ Len(fs) = Len(es)
                           /\ \A i \in 1..Len(es) :
                                 /\ fs[i].name = es[i].name
                                 /\ fs[i].address = es[i].address
                                 /\ fs[i].timing = es[i].timing
                                 /\ fs[i].avblslots # es[i].avblslots
                                      => /\ es[i].name = new.clinic_name
                                         /\ strptime_d_m_Y(day) = new.appointment_date
      ]_vars

\* a booking took a generated slot out of the answer while the same time of
\* the other clinic and of the other day stayed offered
C27_Witness ==
    /\ result[1] = 201
    /\ \E a \in tbl_doctorappointments :
          /\ a.status = "Scheduled"
          /\ SlotOf(a) \in Generated(a.doctor_id)
          /\ SlotOf(a) \notin OfferedSlots(a.doctor_id)
          /\ \E other \in OfferedSlots(a.doctor_id) :
                /\ other.slot = SlotOf(a).slot
                /\ other.day = SlotOf(a).day
                /\ other.clinic_name # a.clinic_name
          /\ \E other \in OfferedSlots(a.doctor_id) :
                /\ other.slot = SlotOf(a).slot
                /\ other.day # SlotOf(a).day
                /\ other.clinic_name = a.clinic_name

(* C29. Appointment ownership: no step changes the subscriber_id of a       *)
(* stored appointment, and an update_appointment call changes a row only    *)
(* when the row belongs to the subscriber who makes the call.               *)
C29_OwnershipPreserved ==
    [][ \A a \in tbl_doctorappointments :
          \A b \in tbl_doctorappointments' :
              a.appointment_id = b.appointment_id
              => /\ b.subscriber_id = a.subscriber_id
                 /\ (op'.n # op.n /\ op'.kind = "update" /\ b # a)
                      => a.subscriber_id = op'.subscriber_id ]_vars

-----------------------------------------------------------------------------
(* Vitals recurrence: frequency_time_helper and create_nursing_vitals_bl.   *)

MaxVitalsRequests == 2

tbl_vital_frequency ==
    [id \in 1..5 |->
        [session_frequency |->
            CASE id = 1 -> "Twice in a session"
              [] id = 2 -> "Every two hours"
              [] id = 3 -> "Every one hour"
              [] id = 4 -> "Twice a day"
              [] OTHER  -> "Thrice a day"]]

RecognisedPolicies ==
    {"Twice in a session", "Every two hours", "Every one hour", "Twice a day"}

\* frequency ids a request may carry; 9 has no row
FrequencyIds == (1..5) \cup {9}

\* int((service_end_time - service_start_time).total_seconds() / 3600):
\* int() truncates towards zero
int_total_time_hours(start_time, end_time) ==
    IF end_time >= start_time
    THEN (end_time - start_time) \div 3600
    ELSE -((start_time - end_time) \div 3600)

\* mutant: the boundary test is current_time < service_end_time
RECURSIVE hour_loop_exclusive(_, _, _, _, _)
hour_loop_exclusive(i, stop, step, start_time, end_time) ==
    IF i >= stop THEN <<>>
    ELSE LET current_time == start_time + timedelta_hours(i)
         IN  (IF current_time < end_time THEN <<current_time>> ELSE <<>>)
             \o hour_loop_exclusive(i + step, stop, step, start_time, end_time)

\* for i in range(i, stop, step): the current_time values that pass the test
RECURSIVE hour_loop(_, _, _, _, _)
hour_loop(i, stop, step, start_time, end_time) ==
    IF i >= stop THEN <<>>
    ELSE LET current_time == start_time + timedelta_hours(i)
         IN  (IF current_time <= end_time THEN <<current_time>> ELSE <<>>)
             \o hour_loop(i + step, stop, step, start_time, end_time)

\* mutant: "Twice a day" adds the mid time whatever the session length
frequency_time_mid_always(session_frequency, start_time, end_time) ==
    CASE session_frequency \in {"Twice in a session"} ->
            <<start_time, end_time>>
      [] session_frequency = "Every two hours" ->
            hour_loop(0, int_total_time_hours(start_time, end_time) + 1, 2,
                      start_time, end_time)
      [] session_frequency = "Every one hour" ->
            hour_loop(0, int_total_time_hours(start_time, end_time) + 1, 1,
                      start_time, end_time)
      [] session_frequency = "Twice a day" ->
            <<start_time, start_time + timedelta_hours(12), end_time>>
      [] OTHER -> <<>>

\* mutant: "Twice in a session" returns the earlier time first
frequency_time_ordered(session_frequency, start_time, end_time) ==
    CASE session_frequency = "Twice in a session" ->
            IF start_time <= end_time THEN <<start_time, end_time>>
            ELSE <<end_time, start_time>>
      [] session_frequency = "Every two hours" ->
            hour_loop(0, int_total_time_hours(start_time, end_time) + 1, 2,
                      start_time, end_time)
      [] session_frequency = "Every one hour" ->
            hour_loop(0, int_total_time_hours(start_time, end_time) + 1, 1,
                      start_time, end_time)
      [] session_frequency = "Twice a day" ->
            IF end_time - start_time = 0
            THEN <<start_time, start_time + timedelta_hours(12), end_time>>
            ELSE <<start_time, end_time>>
      [] OTHER -> <<>>

\* mutant: "Every two hours" steps by one hour
frequency_time_step_one(session_frequency, start_time, end_time) ==
    CASE session_frequency = "Twice in a session" ->
            <<start_time, end_time>>
      [] session_frequency = "Every two hours" ->
            hour_loop(0, int_total_time_hours(start_time, end_time) + 1, 1,
                      start_time, end_time)
      [] session_frequency = "Every one hour" ->
            hour_loop(0, int_total_time_hours(start_time, end_time) + 1, 1,
                      start_time, end_time)
      [] session_frequency = "Twice a day" ->
            IF end_time - start_time = 0
            THEN <<start_time, start_time + timedelta_hours(12), end_time>>
            ELSE <<start_time, end_time>>
      [] OTHER -> <<>>

\* mutant: "Twice a day" never adds the mid time
frequency_time_no_mid(session_frequency, start_time, end_time) ==
    CASE session_frequency = "Twice in a session" ->
            <<start_time, end_time>>
      [] session_frequency = "Every two hours" ->
            hour_loop(0, int_total_time_hours(start_time, end_time) + 1, 2,
                      start_time, end_time)
      [] session_frequency = "Every one hour" ->
            hour_loop(0, int_total_time_hours(start_time, end_time) + 1, 1,
                      start_time, end_time)
      [] session_frequency = "Twice a day" ->
            <<start_time, end_time>>
      [] OTHER -> <<>>

\* the frequency session logic, lines 691-714: a list of datetimes
frequency_time(session_frequency, start_time, end_time) ==
    CASE session_frequency = "Twice in a session" ->
            <<start_time, end_time>>
      [] session_frequency = "Every two hours" ->
            hour_loop(0, int_total_time_hours(start_time, end_time) + 1, 2,
                      start_time, end_time)
      [] session_frequency = "Every one hour" ->
            hour_loop(0, int_total_time_hours(start_time, end_time) + 1, 1,
                      start_time, end_time)
      [] session_frequency = "Twice a day" ->
            IF end_time - start_time = 0
            THEN <<start_time, start_time + timedelta_hours(12), end_time>>
            ELSE <<start_time, end_time>>
      [] OTHER -> <<>>

\* lines 680-718: status 200 stands for a returned list, 500 for the raised
\* HTTPException "Error occurred while getting frequency time"
frequency_time_helper(service_start_time, service_end_time, session_frequency_id) ==
    IF session_frequency_id \notin DOMAIN tbl_vital_frequency
    THEN [status |-> 500, times |-> <<>>]        \* None.session_frequency
    ELSE IF ~IsClock24(service_start_time) \/ ~IsClock24(service_end_time)
    THEN [status |-> 500, times |-> <<>>]        \* strptime ValueError
    ELSE LET dts == frequency_time(
                        tbl_vital_frequency[session_frequency_id].session_frequency,
                        strptime_H_M_S(service_start_time),
                        strptime_H_M_S(service_end_time))
         IN  [status |-> 200,
              times |-> [k \in 1..Len(dts) |-> strftime_H_M_S(dts[k])]]

\* the VitalsTime rows of one request, in the order of frequency_time
vitals_time_rows(vitals_request_id, times, first_id) ==
    [k \in 1..Len(times) |->
        [vitals_time_id |-> first_id + k - 1,
         vitals_request_id |-> vitals_request_id,
         vital_time |-> times[k]]]

\* the flush that meets a database error: 0 when none does, k for the k-th
\* flush of the call (the VitalsRequest first, then one per VitalsTime)
DbErrorAt == 0..3

\* mutant: every flush is kept, as if create_vitals_dal and
\* create_vital_time_dal committed on their own
nursing_vitals_writes_autocommit(requests, times, vitals_requested, time_list, db_error_at) ==
    LET id      == vitals_requested.vitals_request_id
        rows    == vitals_time_rows(id, time_list, Len(times) + 1)
        flushes == 1 + Len(time_list)
    IN  IF db_error_at \in 1..flushes
        THEN [status |-> 500, flushed |-> db_error_at - 1,
              requests |-> IF db_error_at > 1 THEN Append(requests, vitals_requested)
                           ELSE requests,
              times |-> times \o SubSeq(rows, 1, db_error_at - 2)]
        ELSE [status |-> 201, flushed |-> flushes,
              requests |-> Append(requests, vitals_requested),
              times |-> times \o rows]

\* the writes of lines 566-575 inside "async with session.begin()": the
\* VitalsRequest is added and flushed, then one VitalsTime per timestamp; a
\* flush that raises leaves the block with an HTTP 500 and the transaction
\* rolls back, otherwise it commits
nursing_vitals_writes(requests, times, vitals_requested, time_list, db_error_at) ==
    LET id      == vitals_requested.vitals_request_id
        rows    == vitals_time_rows(id, time_list, Len(times) + 1)
        flushes == 1 + Len(time_list)
    IN  IF db_error_at \in 1..flushes
        THEN [status |-> 500, flushed |-> db_error_at - 1,
              requests |-> requests, times |-> times]
        ELSE [status |-> 201, flushed |-> flushes,
              requests |-> Append(requests, vitals_requested),
              times |-> times \o rows]

\* POST /subscriber/nursingvitals/: create_nursing_vitals_bl, lines 549-584
CreateNursingVitals(sp_appointment_id, vitals_frequency_id, db_error_at) ==
    /\ Len(tbl_vitals_request) < MaxVitalsRequests
    /\ vitals_req' = [sp_appointment_id |-> sp_appointment_id,
                      vitals_frequency_id |-> vitals_frequency_id]
    /\ IF sp_appointment_id \notin DOMAIN tbl_sp_appointments
       THEN \* None.start_time: caught, HTTP 500, the transaction rolls back
            /\ vitals_out' = [status |-> 500, frequency_time |-> <<>>, flushed |-> 0,
                              db_error |-> FALSE]
            /\ UNCHANGED <<tbl_vitals_request, tbl_vitals_time>>
       ELSE LET sp == tbl_sp_appointments[sp_appointment_id]
                ft == frequency_time_helper(sp.start_time, sp.end_time,
                                            vitals_frequency_id)
                id == Len(tbl_vitals_request) + 1
            IN  IF ft.status # 200
                THEN /\ vitals_out' = [status |-> 500, frequency_time |-> <<>>,
                                       flushed |-> 0, db_error |-> FALSE]
                     /\ UNCHANGED <<tbl_vitals_request, tbl_vitals_time>>
                ELSE LET done == nursing_vitals_writes(
                                     tbl_vitals_request, tbl_vitals_time,
                                     [vitals_request_id |-> id,
                                      appointment_id |-> sp_appointment_id,
                                      vital_frequency_id |-> vitals_frequency_id],
                                     ft.times, db_error_at)
                     IN  /\ tbl_vitals_request' = done.requests
                         /\ tbl_vitals_time' = done.times
                         /\ vitals_out' =
                               [status |-> done.status,
                                frequency_time |-> IF done.status = 201
                                                   THEN ft.times ELSE <<>>,
                                flushed |-> done.flushed,
                                db_error |-> done.status # 201]
    /\ UNCHANGED tbl_sp_appointments
    /\ UNCHANGED <<slotVars, bookingVars, medVars, loopVars>>

\* session texts; "24:00:00" is rejected by %H
SessionTimes ==
    { <<8, 0, 0>>, <<9, 0, 0>>, <<10, 30, 0>>, <<14, 0, 0>>, <<17, 0, 0>>,
      <<23, 30, 0>>, <<24, 0, 0>> }

IdleSlots ==
    /\ today = strptime_d_m_Y(<<25, 2, 2026>>)
    /\ tbl_doctor = [x \in {"D1"} |-> [avblty |-> 30]]
    /\ tbl_doctoravblty = <<>>
    /\ tbl_doctorappointments = {}
    /\ req = "none"
    /\ resp = NoResp
    /\ tbl_idgenerator = [e \in {"DOCTORAPPOINTMENT"} |-> Code("ICDAP", 2, 98)]
    /\ IdleClients
    /\ call = NoCall

InitVitals ==
    /\ IdleSlots
    /\ \E s, e \in SessionTimes :
          tbl_sp_appointments = [x \in {"SP1"} |-> [start_time |-> s, end_time |-> e]]
    /\ tbl_vitals_request = <<>>
    /\ tbl_vitals_time = <<>>
    /\ vitals_req = [sp_appointment_id |-> "", vitals_frequency_id |-> 0]
    /\ vitals_out = NoVitalsOut
    /\ med_in = NoMedIn
    /\ med_out = NoMedOut

NextVitals ==
    \E sp_appointment_id \in {"SP1", "SP0"}, vitals_frequency_id \in FrequencyIds,
       db_error_at \in DbErrorAt :
        CreateNursingVitals(sp_appointment_id, vitals_frequency_id, db_error_at)

SpecVitals == InitVitals /\ [][NextVitals]_vars

-----------------------------------------------------------------------------
(* Properties of the vitals recurrence (SpecVitals).                        *)

VitalsCalled == vitals_out.status # 0

Session == tbl_sp_appointments["SP1"]

SessionStart == strptime_H_M_S(Session.start_time)
SessionEnd == strptime_H_M_S(Session.end_time)

RequestedPolicy ==
    IF vitals_req.vitals_frequency_id \in DOMAIN tbl_vital_frequency
    THEN tbl_vital_frequency[vitals_req.vitals_frequency_id].session_frequency
    ELSE "no such frequency row"

(* C5 as stated. RecurrencePlanner range: every timestamp returned for a    *)
(* session lies in the closed interval [start_time, end_time].              *)
C5_AllInsideSession ==
    vitals_out.status = 201 =>
        \A k \in 1..Len(vitals_out.frequency_time) :
            /\ SessionStart <= strptime_H_M_S(vitals_out.frequency_time[k])
            /\ strptime_H_M_S(vitals_out.frequency_time[k]) <= SessionEnd

(* C5 amended. Every timestamp frequency_time_helper returns is start_time  *)
(* or end_time itself or lies in the closed interval [start_time, end_time],*)
(* except the middle timestamp start_time + 12h that "Twice a day" returns  *)
(* when start_time = end_time.                                              *)
C5_InsideSessionButMidday ==
    vitals_out.status = 201 =>
        \A k \in 1..Len(vitals_out.frequency_time) :
            LET t == strptime_H_M_S(vitals_out.frequency_time[k])
            IN  \/ t \in {SessionStart, SessionEnd}
                \/ SessionStart <= t /\ t <= SessionEnd
                \/ /\ RequestedPolicy = "Twice a day"
                   /\ SessionStart = SessionEnd
                   /\ k = 2
                   /\ t = (SessionStart + timedelta_hours(12)) % SecondsPerDay

\* an hourly policy answered with three or more timestamps for a session
\* whose end is not on the hour grid
C5_Witness ==
    /\ vitals_out.status = 201
    /\ RequestedPolicy = "Every one hour"
    /\ SessionStart < SessionEnd
    /\ Len(vitals_out.frequency_time) >= 3
    /\ strptime_H_M_S(vitals_out.frequency_time[Len(vitals_out.frequency_time)])
          < SessionEnd

(* C6. Unknown frequency policy: when the session frequency value is not    *)
(* one of the four recognised policies the request is answered with an      *)
(* error; it is never answered with success and an empty list.              *)
C6_UnknownPolicyIsAnError ==
    ( /\ VitalsCalled
      /\ vitals_req.vitals_frequency_id \in DOMAIN tbl_vital_frequency
      /\ RequestedPolicy \notin RecognisedPolicies )
    => vitals_out.status = 500

\* the request named an existing appointment with well-formed session texts
\* and the frequency row of a policy, and no flush met a database error
AskedFor(policy) ==
    /\ VitalsCalled
    /\ ~vitals_out.db_error
    /\ vitals_req.sp_appointment_id = "SP1"
    /\ IsClock24(Session.start_time)
    /\ IsClock24(Session.end_time)
    /\ RequestedPolicy = policy

\* start, start + step hours, ... while <= end, as "%H:%M:%S" texts
HourGrid(step) ==
    LET n == IF SessionEnd >= SessionStart
             THEN (SessionEnd - SessionStart) \div timedelta_hours(step) + 1
             ELSE 0
    IN  [k \in 1..n |-> strftime_H_M_S(SessionStart + (k - 1) * timedelta_hours(step))]

(* C12. TwicePerSession: for the policy "Twice in a session" and every      *)
(* session, frequency_time_helper returns exactly the two-element list      *)
(* [start_time, end_time].                                                  *)
C12_TwicePerSession ==
    AskedFor("Twice in a session") =>
        /\ vitals_out.status = 201
        /\ vitals_out.frequency_time =
              <<strftime_H_M_S(SessionStart), strftime_H_M_S(SessionEnd)>>

\* the example: 09:00:00 to 17:00:00 gives ["09:00:00", "17:00:00"]
C12_Witness ==
    /\ AskedFor("Twice in a session")
    /\ Session.start_time = <<9, 0, 0>>
    /\ Session.end_time = <<17, 0, 0>>
    /\ vitals_out.frequency_time = << <<9, 0, 0>>, <<17, 0, 0>> >>

(* C13. EveryOneHour: for the policy "Every one hour" and every session,    *)
(* frequency_time_helper returns exactly the timestamps start_time + k      *)
(* hours, k >= 0, that are <= end_time, in increasing order, the end        *)
(* boundary included when it is hit exactly.                                *)
C13_EveryOneHour ==
    AskedFor("Every one hour") =>
        /\ vitals_out.status = 201
        /\ vitals_out.frequency_time = HourGrid(1)

\* a session whose end is hit exactly: the last timestamp is end_time
C13_Witness ==
    /\ AskedFor("Every one hour")
    /\ SessionStart < SessionEnd
    /\ Len(vitals_out.frequency_time) >= 2
    /\ vitals_out.frequency_time[Len(vitals_out.frequency_time)] = Session.end_time

(* C14. EveryTwoHours: for the policy "Every two hours" and every session,  *)
(* frequency_time_helper returns exactly the timestamps start_time + 2k     *)
(* hours, k >= 0, that are <= end_time, in increasing order.                *)
C14_EveryTwoHours ==
    AskedFor("Every two hours") =>
        /\ vitals_out.status = 201
        /\ vitals_out.frequency_time = HourGrid(2)

\* the example: 08:00:00 to 14:00:00 gives 08:00:00, 10:00:00, 12:00:00, 14:00:00
C14_Witness ==
    /\ AskedFor("Every two hours")
    /\ Session.start_time = <<8, 0, 0>>
    /\ Session.end_time = <<14, 0, 0>>
    /\ vitals_out.frequency_time =
          << <<8, 0, 0>>, <<10, 0, 0>>, <<12, 0, 0>>, <<14, 0, 0>> >>

(* C15. TwiceADay: for the policy "Twice a day", when start_time equals     *)
(* end_time frequency_time_helper returns [start_time, start_time + 12h,    *)
(* end_time]; otherwise it returns [start_time, end_time].                  *)
C15_TwiceADay ==
    AskedFor("Twice a day") =>
        /\ vitals_out.status = 201
        /\ vitals_out.frequency_time =
              IF SessionStart = SessionEnd
              THEN <<strftime_H_M_S(SessionStart),
                     strftime_H_M_S(SessionStart + timedelta_hours(12)),
                     strftime_H_M_S(SessionEnd)>>
              ELSE <<strftime_H_M_S(SessionStart), strftime_H_M_S(SessionEnd)>>

\* a single-instant session in the afternoon: the mid time is rendered as the
\* time of day twelve hours later
C15_Witness ==
    /\ AskedFor("Twice a day")
    /\ Session.start_time = <<14, 0, 0>>
    /\ Session.end_time = <<14, 0, 0>>
    /\ vitals_out.frequency_time = << <<14, 0, 0>>, <<2, 0, 0>>, <<14, 0, 0>> >>

\* the timestamps frequency_time_helper returns for the last request
ReturnedTimes ==
    frequency_time_helper(Session.start_time, Session.end_time,
                          vitals_req.vitals_frequency_id).times

(* C30. Vitals scheduling is all-or-nothing: a create_nursing_vitals_bl     *)
(* call that returns success has stored exactly one VitalsRequest and, for  *)
(* it, exactly one VitalsTime row per timestamp frequency_time_helper       *)
(* returned, in the same order; a call that fails leaves no VitalsRequest   *)
(* and no VitalsTime row behind.                                            *)
C30_AllOrNothing ==
    [][ /\ vitals_out'.status = 201
          => \A returned \in {ReturnedTimes'} :
             /\ Len(tbl_vitals_request') = Len(tbl_vitals_request) + 1
             /\ SubSeq(tbl_vitals_request', 1, Len(tbl_vitals_request))
                    = tbl_vitals_request
             /\ Len(tbl_vitals_time') = Len(tbl_vitals_time) + Len(returned)
             /\ SubSeq(tbl_vitals_time', 1, Len(tbl_vitals_time)) = tbl_vitals_time
             /\ \A k \in 1..Len(returned) :
                   LET row == tbl_vitals_time'[Len(tbl_vitals_time) + k]
                   IN  /\ row.vital_time = returned[k]
                       /\ row.vitals_request_id =
                              tbl_vitals_request'[Len(tbl_vitals_request')]
                                  .vitals_request_id
        /\ vitals_out'.status # 201
          => /\ tbl_vitals_request' = tbl_vitals_request
             /\ tbl_vitals_time' = tbl_vitals_time ]_vars

\* after one stored schedule, a second call met a database error when its
\* VitalsRequest and at least one VitalsTime had been flushed; only the rows
\* of the first call are stored
C30_Witness ==
    /\ vitals_out.status = 500
    /\ vitals_out.db_error
    /\ vitals_out.flushed >= 2
    /\ Len(tbl_vitals_request) = 1
    /\ Len(tbl_vitals_time) >= 2
    /\ \A k \in 1..Len(tbl_vitals_time) :
          tbl_vitals_time[k].vitals_request_id =
              tbl_vitals_request[1].vitals_request_id

-----------------------------------------------------------------------------
(* Dose timing: get_medication_schedule, lines 828-867.                     *)
(*                                                                          *)
(* medication_timing is the sequence of the parts that split('-') gives; a  *)
(* part that int() accepts is its value, a part int() rejects is -1.        *)
(* food_timing is iterated as (key, time_str) pairs.                        *)

times_of_day == <<"morning", "afternoon", "evening", "dinner">>

NotANumber == 0 - 1

FoodKeys(food_timing) == { food_timing[i][1] : i \in 1..Len(food_timing) }

\* the first loop: meal name -> datetime; a later pair replaces an earlier one
parsed_food_timing(food_timing) ==
    [key \in FoodKeys(food_timing) |->
        LET last == CHOOSE i \in 1..Len(food_timing) :
                        /\ food_timing[i][1] = key
                        /\ \A j \in 1..Len(food_timing) :
                               food_timing[j][1] = key => j <= i
        IN  strptime_I_M_p(food_timing[last][2])]

\* an iteration of the second loop raises: int() ValueError, times_of_day
\* IndexError, parsed_food_timing KeyError
dose_raises(index, med_quantities, food_timing) ==
    \/ med_quantities[index] = NotANumber
    \/ /\ med_quantities[index] # 0
       /\ \/ index > Len(times_of_day)
          \/ times_of_day[index] \notin FoodKeys(food_timing)

\* mutant: the two offsets are exchanged
dose_offset_swapped(index, medicine_name, dosage_timing, med_quantities, parsed) ==
    LET time_key    == times_of_day[index]
        food_time   == parsed[time_key]
        intake_time == IF dosage_timing = "Before Food"
                       THEN food_time + timedelta_minutes(15)
                       ELSE food_time - timedelta_minutes(15)
    IN  [medicine_name |-> medicine_name,
         dosage_timing |-> dosage_timing,
         medication_timing |-> time_key,
         quantity |-> med_quantities[index],
         intake_timing |-> strftime_H_M_S(intake_time)]

\* mutant: every event carries quantity 1
dose_quantity_one(index, medicine_name, dosage_timing, med_quantities, parsed) ==
    LET time_key    == times_of_day[index]
        food_time   == parsed[time_key]
        intake_time == IF dosage_timing = "Before Food"
                       THEN food_time - timedelta_minutes(15)
                       ELSE food_time + timedelta_minutes(15)
    IN  [medicine_name |-> medicine_name,
         dosage_timing |-> dosage_timing,
         medication_timing |-> time_key,
         quantity |-> 1,
         intake_timing |-> strftime_H_M_S(intake_time)]

\* the dict one iteration appends, for a nonzero quantity
dose(index, medicine_name, dosage_timing, med_quantities, parsed) ==
    LET time_key    == times_of_day[index]
        food_time   == parsed[time_key]
        intake_time == IF dosage_timing = "Before Food"
                       THEN food_time - timedelta_minutes(15)
                       ELSE food_time + timedelta_minutes(15)
    IN  [medicine_name |-> medicine_name,
         dosage_timing |-> dosage_timing,
         medication_timing |-> time_key,
         quantity |-> med_quantities[index],
         intake_timing |-> strftime_H_M_S(intake_time)]

RECURSIVE doses(_, _, _, _, _)
doses(index, medicine_name, dosage_timing, med_quantities, parsed) ==
    IF index > Len(med_quantities) THEN <<>>
    ELSE (IF med_quantities[index] = 0 THEN <<>>
          ELSE <<dose(index, medicine_name, dosage_timing, med_quantities, parsed)>>)
         \o doses(index + 1, medicine_name, dosage_timing, med_quantities, parsed)

\* mutant: a schedule that lacks any of the four meals is refused
get_medication_schedule_strict(medicine_name, dosage_timing, medication_timing, food_timing) ==
    IF \E i \in 1..Len(food_timing) : ~IsClock12(food_timing[i][2])
    THEN [status |-> 500, schedule |-> <<>>]
    ELSE IF \/ \E index \in 1..Len(medication_timing) :
                  dose_raises(index, medication_timing, food_timing)
            \/ \E index \in 1..Len(times_of_day) :
                  times_of_day[index] \notin FoodKeys(food_timing)
    THEN [status |-> 500, schedule |-> <<>>]
    ELSE [status |-> 200,
          schedule |-> doses(1, medicine_name, dosage_timing, medication_timing,
                             parsed_food_timing(food_timing))]

\* status 200 stands for a returned list, 500 for the raised HTTPException
\* "Error occurred while getting medication schedule"
get_medication_schedule(medicine_name, dosage_timing, medication_timing, food_timing) ==
    IF \E i \in 1..Len(food_timing) : ~IsClock12(food_timing[i][2])
    THEN [status |-> 500, schedule |-> <<>>]
    ELSE IF \E index \in 1..Len(medication_timing) :
                dose_raises(index, medication_timing, food_timing)
    THEN [status |-> 500, schedule |-> <<>>]
    ELSE [status |-> 200,
          schedule |-> doses(1, medicine_name, dosage_timing, medication_timing,
                             parsed_food_timing(food_timing))]

\* one call of get_medication_schedule
MedicationSchedule(dosage_timing, medication_timing, food_timing) ==
    /\ med_in' = [dosage_timing |-> dosage_timing,
                  medication_timing |-> medication_timing,
                  food_timing |-> food_timing]
    /\ med_out' = get_medication_schedule("Med", dosage_timing, medication_timing,
                                          food_timing)
    /\ UNCHANGED <<slotVars, bookingVars, vitalsVars, loopVars>>

DosageCodes ==
    { <<1, 0, 1, 0>>, <<0, 0, 0, 0>>, <<2, 1, 1, 1>>, <<2, 1, 0, 1>>, <<0, 0, 0, 1>>, <<0, 1, 0, 0>>,
      <<1, 0, 1>>, <<1>>, <<1, 0>>, <<0, 0, 0>>,
      <<1, 1, 1, 1, 0>>, <<1, 0, 1, 0, 2>>, <<0, 0, 0, 0, 0>>,
      <<1, NotANumber, 0, 0>> }

FoodTimings ==
    { << <<"morning", T(8, 0, "AM")>>, <<"afternoon", T(1, 0, "PM")>>,
         <<"evening", T(8, 0, "PM")>>, <<"dinner", T(10, 0, "PM")>> >>,
      << <<"morning", T(8, 0, "AM")>>, <<"evening", T(8, 0, "PM")>> >>,
      \* offsets that leave the day
      << <<"morning", T(12, 5, "AM")>>, <<"afternoon", T(12, 0, "PM")>>,
         <<"evening", T(6, 30, "pm")>>, <<"dinner", T(11, 50, "PM")>> >>,
      \* "13:00 PM" is rejected by %I
      << <<"morning", T(8, 0, "AM")>>, <<"afternoon", T(13, 0, "PM")>>,
         <<"evening", T(8, 0, "PM")>>, <<"dinner", T(10, 0, "PM")>> >>,
      << <<"morning", T(7, 30, "AM")>>, <<"afternoon", T(1, 0, "PM")>>,
         <<"dinner", T(9, 0, "PM")>> >>,
      <<>> }

InitMed ==
    /\ IdleSlots
    /\ IdleNursing

NextMed ==
    \E dosage_timing \in {"Before Food", "After Food"},
       medication_timing \in DosageCodes,
       food_timing \in FoodTimings :
        MedicationSchedule(dosage_timing, medication_timing, food_timing)

SpecMed == InitMed /\ [][NextMed]_vars

-----------------------------------------------------------------------------
(* Properties of dose timing (SpecMed).                                     *)

MedCalled == med_out.status # 0

(* C7. Dosage-code cardinality: a dosage code whose number of parts differs *)
(* from the four meal slots makes get_medication_schedule report an error;  *)
(* it never returns a schedule for such a code.                             *)
C7_CardinalityMismatchIsAnError ==
    (MedCalled /\ Len(med_in.medication_timing) # Len(times_of_day))
    => med_out.status = 500

\* the dosage code and the meal schedule of the call
DosageCode == med_in.medication_timing
Meals == med_in.food_timing

MealNames == { Meals[i][1] : i \in 1..Len(Meals) }

\* the configured time of a meal that the schedule names
MealTime(name) ==
    strptime_I_M_p(Meals[CHOOSE i \in 1..Len(Meals) : Meals[i][1] = name][2])

\* every meal text is a "%I:%M %p" time and every part of the code is a
\* number, nonzero only in the four meal positions
WellFormedDose ==
    /\ \A i \in 1..Len(Meals) : IsClock12(Meals[i][2])
    /\ \A i \in 1..Len(DosageCode) :
          /\ DosageCode[i] >= 0
          /\ i > Len(times_of_day) => DosageCode[i] = 0

\* the positions of the code with a nonzero digit, in order
DosePositions ==
    SelectSeq([i \in 1..Len(DosageCode) |-> i], LAMBDA i : DosageCode[i] # 0)

(* C16. Dose offset: every event get_medication_schedule returns has as     *)
(* intake time the configured time of its meal minus 15 minutes when the    *)
(* dosage timing is Before Food and plus 15 minutes when it is After Food.  *)
C16_DoseOffset ==
    (MedCalled /\ med_out.status = 200) =>
        \A k \in 1..Len(med_out.schedule) :
            LET event == med_out.schedule[k]
            IN  /\ event.medication_timing \in MealNames
                /\ med_in.dosage_timing = "Before Food" =>
                       event.intake_timing =
                           strftime_H_M_S(MealTime(event.medication_timing) - 15 * 60)
                /\ med_in.dosage_timing = "After Food" =>
                       event.intake_timing =
                           strftime_H_M_S(MealTime(event.medication_timing) + 15 * 60)

\* the example: "1-0-1-0", Before Food, morning 08:00 and evening 20:00 give
\* morning at 07:45 and evening at 19:45, each with quantity 1
C16_Witness ==
    /\ med_in.dosage_timing = "Before Food"
    /\ DosageCode = <<1, 0, 1, 0>>
    /\ Meals = << <<"morning", T(8, 0, "AM")>>, <<"evening", T(8, 0, "PM")>> >>
    /\ med_out.status = 200
    /\ Len(med_out.schedule) = 2
    /\ med_out.schedule[1].medication_timing = "morning"
    /\ med_out.schedule[1].intake_timing = <<7, 45, 0>>
    /\ med_out.schedule[1].quantity = 1
    /\ med_out.schedule[2].medication_timing = "evening"
    /\ med_out.schedule[2].intake_timing = <<19, 45, 0>>
    /\ med_out.schedule[2].quantity = 1

(* C17. Dose events per slot: for a 4-position dosage code the schedule     *)
(* returned holds exactly one event for each position with a nonzero digit  *)
(* and none for a zero digit, in the order morning, afternoon, evening,     *)
(* dinner, each with quantity equal to the digit and medication_timing      *)
(* equal to the meal name of the position.                                  *)
C17_EventsPerSlot ==
    (MedCalled /\ Len(DosageCode) = Len(times_of_day)) =>
        /\ ( /\ WellFormedDose
             /\ \A i \in 1..Len(DosageCode) :
                   DosageCode[i] # 0 => times_of_day[i] \in MealNames )
           => med_out.status = 200
        /\ med_out.status = 200 =>
              /\ Len(med_out.schedule) = Len(DosePositions)
              /\ \A k \in 1..Len(DosePositions) :
                    /\ med_out.schedule[k].medication_timing
                          = times_of_day[DosePositions[k]]
                    /\ med_out.schedule[k].quantity = DosageCode[DosePositions[k]]

\* a code with a zero digit, a digit above 1 and several events
C17_Witness ==
    /\ MedCalled
    /\ DosageCode = <<2, 1, 0, 1>>
    /\ med_out.status = 200
    /\ Len(med_out.schedule) = 3
    /\ med_out.schedule[1].quantity = 2
    /\ med_out.schedule[3].medication_timing = "dinner"

(* C18. Missing meal time: when a position of the dosage code has a nonzero *)
(* digit and the meal schedule has no time for that meal, an error is       *)
(* reported and no schedule is returned; when the only meals without a time *)
(* belong to positions with digit 0, no error is reported.                  *)
C18_MissingMealTime ==
    MedCalled =>
        /\ ( \E i \in 1..Len(DosageCode) :
                 /\ i <= Len(times_of_day)
                 /\ DosageCode[i] # 0
                 /\ times_of_day[i] \notin MealNames )
           => /\ med_out.status = 500
              /\ med_out.schedule = <<>>
        /\ ( /\ WellFormedDose
             /\ \A i \in 1..Len(DosageCode) :
                   DosageCode[i] # 0 => times_of_day[i] \in MealNames )
           => med_out.status = 200

\* a schedule without the evening meal: a code that doses the evening is
\* refused
C18_Witness ==
    /\ MedCalled
    /\ WellFormedDose
    /\ "evening" \notin MealNames
    /\ Len(DosageCode) = 4
    /\ DosageCode[3] # 0
    /\ med_out.status = 500

=============================================================================
